---- MODULE Spec2Model ----
(***************************************************************************)
(* ProxyManager (src/src/proxy/ProxyManager.ts): the supervisor of the     *)
(* proxy child process.                                                    *)
(*                                                                         *)
(* One ProxyManager lives on a single event loop.  A step of the model is  *)
(* one turn of that loop: the code a callback runs to completion,          *)
(* including the promise continuations it makes ready.  The async methods  *)
(* are suspended across turns only at                                      *)
(*   - the fetch of isProxyAvailable() when a port is assigned,            *)
(*   - the 2000 ms settle delay of startProxy(),                           *)
(*   - the 1000 ms delay of restartProxy().                                *)
(* isProxyAvailable() with no port assigned returns within the turn, and   *)
(* so does the port scan: net.Server.listen(port) binds in the call and    *)
(* reports 'listening' or 'error' on the next tick, so findFreeProxyPort() *)
(* and the spawn of the startProxy() that follows run in the turn that     *)
(* began the scan.                                                         *)
(*                                                                         *)
(* Each suspended async call is a task with a pc at its await.  The        *)
(* callers are those of src/src/extension.ts: ensureProxyAvailable()       *)
(* (activation, kb.startProxy), isProxyAvailable() (kb.startProxy) and     *)
(* stopProxy() (kb.stopProxy, deactivate); startProxy is reached through   *)
(* ensureProxyAvailable and restartProxy.                                  *)
(***************************************************************************)
EXTENDS Integers, FiniteSets, Sequences, TLC

\* ---------------------------------------------------------------- bounds
\* number of async calls of the manager that may be suspended at once
MaxTasks == 2
\* number of child processes that may exist (spawned, 'close' not yet
\* handled) at once
MaxChildren == 2
\* size of the scanned port range (7001..7010 in the source)
RangeSize == 2

\* ------------------------------------------------------------- constants
PortLo == 7001
PortHi == PortLo + RangeSize - 1
Ports == PortLo..PortHi
FallbackPort == 7001

Tasks == 1..MaxTasks
Children == 1..MaxChildren

\* null of proxyPort, of proxyProcess and of the history fields
Null == 0

VARIABLES
    proxyPort,            \* this.proxyPort: Null or a port
    proxyProcess,         \* this.proxyProcess: Null or the child it refers to
    healthCheckInterval,  \* TRUE iff this.healthCheckInterval holds an armed timer
    isStopped,            \* this.isStopped
    child,                \* the spawned child processes
    extBusy,              \* ports held by processes other than the children
    task,                 \* the suspended async calls
    stopLatch,            \* history: a caller's stopProxy() returned and no caller
                          \* has invoked ensureProxyAvailable since
    failLatch,            \* history: a start on a caller's path failed and no
                          \* caller has invoked ensureProxyAvailable since
    crashed,              \* LiveSpec: the out-of-band exit has happened
    last                  \* history: what the step just taken did

\* the proxy child process (src/src/proxy/proxy.ts) serving one request
VARIABLES
    adapter,              \* how the processResponse promises settle
    rq,                   \* the inbound request (req)
    hpc,                  \* where the route handler stands
    up,                   \* the outbound call to the upstream API
    res,                  \* the response to the caller (res)
    pending,              \* processResponse promises not yet settled
    stream,               \* the Readable made from the upstream body
    reqClosed,            \* the caller's connection has closed
    obs                   \* history: what the adapter and the parser did

\* the exchange log of OrchestratorAdapter
\* (src/src/proxy/orchestrator-adapter.ts)
VARIABLES
    clock,                \* new Date(): the day and the time of day
    logFiles,             \* the files of ~/.orchestrator/logs, by name
    msg,                  \* messages[0] of the caller of processPrompt
    lastRec               \* history: the last call of logRequest

\* the environment of the extension host (process.env)
VARIABLES
    processEnv            \* proxyUrl: GH_COPILOT_OVERRIDE_PROXY_URL is set;
                          \* node: PATH leads to a `node` executable

\* the manager of the core service (CoreManager, src/unnamed/part_000)
VARIABLES
    core                  \* its fields, its children and its pending call

\* the proxy serving several requests at once, as the exchange log sees them
VARIABLES
    inflight,             \* the requests being served: where each stands
    calls                 \* history: the logRequest calls that wrote, in the
                          \* order they were made

\* the adapter that keeps a fileLoggingEnabled flag (src/unnamed/part_002)
VARIABLES
    fsys,                 \* ~/.orchestrator/logs as the file system has it
    fileLoggingEnabled,   \* this.fileLoggingEnabled
    logDir,               \* this.logDir is set (not the empty string)
    audit                 \* history: what the last logRequest call did

pmVars == <<proxyPort, proxyProcess, healthCheckInterval, isStopped>>
managerVars == <<proxyPort, proxyProcess, healthCheckInterval, isStopped, child,
                 extBusy, task, stopLatch, failLatch, crashed, last>>
handlerVars == <<adapter, rq, hpc, up, res, pending, stream, reqClosed, obs>>
loggerVars == <<clock, logFiles, msg, lastRec>>
hostVars == <<processEnv>>
coreVars == <<core>>
journalVars == <<inflight, calls, fsys, fileLoggingEnabled, logDir, audit>>
restVars == <<handlerVars, loggerVars, hostVars, coreVars, journalVars>>
vars == <<managerVars, handlerVars, loggerVars, hostVars, coreVars, journalVars>>

\* ------------------------------------------------------------ child side
\* st: "free"     no process in this slot (never spawned, or 'close' handled)
\*     "starting" process running, server.listen not yet done
\*     "up"       listening on its port, answers GET /ping with 200
\*     "hung"     listening on its port, does not answer
\*     "dead"     exited, or sent the kill signal; 'close' not yet emitted
\*     "failed"   spawn found no executable: the ChildProcess has no process
\*                and its 'error' event is due on the next tick
\* by: the task whose startProxy spawned it, while that startProxy has not
\*     returned and the manager has not killed the child (else Null)
FreeChild == [st |-> "free", port |-> Null, by |-> Null]

Alive(c) == child[c].st \in {"starting", "up", "hung"}

\* a process holds port p
PortHeld(ch, p) ==
    p \in extBusy \/ \E c \in Children : ch[c].st \in {"up", "hung"} /\ ch[c].port = p

\* isPortFree(port): net.createServer().listen(port) succeeds
isPortFree(ch, p) == ~PortHeld(ch, p)

\* the loop of findFreeProxyPort() from port p on: the first free port, the
\* fallback when the range is exhausted
RECURSIVE scanPorts(_, _)
scanPorts(ch, p) ==
    IF p > PortHi THEN FallbackPort
    ELSE IF isPortFree(ch, p) THEN p
    ELSE scanPorts(ch, p + 1)

\* a scan that starts one port too high (a slip C12 excludes)
findFreeProxyPort_SkipFirst(ch) == scanPorts(ch, PortLo + 1)

\* findFreeProxyPort(): the scan of the whole range
findFreeProxyPort(ch) == scanPorts(ch, PortLo)

\* a child accepts connections on port p.  A process other than the children
\* that holds a port does not serve /ping
Listening(ch, p) == \E c \in Children : ch[c].st \in {"up", "hung"} /\ ch[c].port = p

\* the answer of GET http://127.0.0.1:p/ping: response.ok
PingOk(p) == \E c \in Children : child[c].st = "up" /\ child[c].port = p

\* ChildProcess.kill(): SIGTERM; the child closes its server and exits
Kill(ch, c) ==
    IF ch[c].st \in {"starting", "up", "hung"}
    THEN [ch EXCEPT ![c].st = "dead", ![c].by = Null]
    ELSE ch

\* the startProxy of task t has returned
ClearBy(ch, t) ==
    [c \in Children |-> IF ch[c].by = t THEN [ch[c] EXCEPT !.by = Null] ELSE ch[c]]

\* the process spawn creates: the lowest free slot
HasFreeChild(ch) == \E c \in Children : ch[c].st = "free"

NewChild(ch) ==
    CHOOSE c \in Children :
        ch[c].st = "free" /\ \A d \in Children : d < c => ch[d].st # "free"

\* ------------------------------------------------------------- task side
\* pc: the await the call is suspended on; kind: the outermost call
\* ("ensure", "restart", "tick", "avail"); auto: started by the manager itself
\* (exit handler, timer) and not by a caller; port: the port argument of
\* startProxy; probe: the port the pending fetch was sent to; asg: the port
\* assigned when isProxyAvailable() was entered; ok: while the fetch is
\* pending, its connection was accepted (with nothing listening it is refused
\* and the fetch throws); once answered, response.ok
IdleTask == [pc |-> "idle", kind |-> "-", auto |-> FALSE, port |-> Null,
             probe |-> Null, asg |-> Null, ok |-> FALSE]

TaskIdle(t) == task[t].pc = "idle"

HasFreeTask == \E t \in Tasks : TaskIdle(t)

NewTask == CHOOSE t \in Tasks : TaskIdle(t) /\ \A u \in Tasks : u < t => ~TaskIdle(u)

\* history of the step just taken.  op: "start_head" (the synchronous head of
\* startProxy ran: val "spawned" or "threw"), "start_ret", "ensure_ret",
\* "avail_ret" (the call returned val "T"/"F"), "stopProxy" (a caller's stop
\* returned), "restartProxy"; kind/auto/port/probe/ok: of the task that took
\* the step; preProc/prePort: the handle and the port when startProxy was
\* entered; close: the step ran a 'close' handler, which found isStopped set
\* ("stopped") or re-ran ensureProxyAvailable ("restart"); warn: the step
\* logged that GH_COPILOT_OVERRIDE_PROXY_URL is not set
NoEvent == [op |-> "none", val |-> "-", kind |-> "-", auto |-> FALSE,
            preProc |-> Null, prePort |-> Null, port |-> Null, probe |-> Null,
            ok |-> FALSE, close |-> "-", warn |-> FALSE]

RetEvent(op, val, tk) ==
    [NoEvent EXCEPT !.op = op, !.val = val, !.kind = tk.kind, !.auto = tk.auto,
                    !.port = tk.port, !.probe = tk.probe, !.ok = tk.ok]

\* the handle and the port as the running turn sees them
Here == [proc |-> proxyProcess, port |-> proxyPort, close |-> "-"]

\* failLatch after the step whose event is ev, from its value `was`: set by a
\* startProxy on a caller's path that threw or returned false
FailLatchAfter(ev, was) ==
    IF /\ ~ev.auto
       /\ \/ ev.op = "start_ret" /\ ev.val = "F"
          \/ ev.op = "start_head" /\ ev.val = "threw"
    THEN TRUE
    ELSE was

\* ------------------------------------------------- the proxy at rest
\* the sentinel that ends an event stream
Done == "[DONE]"

\* body of the 500 the catch blocks of proxy.ts send
InternalError == "Internal Server Error"

\* no request has arrived
\* messages[0] of a request body: absent (no messages), null, or a message
\* whose content is a string, kept as the pieces it is concatenated from
NoMessage == [is |-> "absent", content |-> <<>>]

\* method, url, headers and payload are the request as the caller sent it;
\* fields are the names of the members of its JSON body
NoRequest == [route |-> "-", stream |-> FALSE, first |-> NoMessage,
              method |-> "-", url |-> "-", headers |-> {}, payload |-> "none",
              fields |-> {}]

\* the JSON body of a chat-completions call
Body(first, streaming) == [first |-> first, stream |-> streaming]

\* no outbound call has been made
\* st: "none", "sent" (awaiting the response headers), "head" (headers here,
\*     body being read), "done" (body read to its end), "failed" (fetch
\*     rejected), "cancelled" (body stream destroyed)
\* method, url, headers, payload and fields are the call as fetch was given
\* it; rheaders are the headers of the upstream response
NoCall == [st |-> "none", calls |-> 0, body |-> Body(NoMessage, FALSE), status |-> 0,
           text |-> "-", events |-> <<>>, all |-> <<>>, aborted |-> FALSE,
           method |-> "-", url |-> "-", headers |-> {}, payload |-> "none",
           fields |-> {}, rheaders |-> {}]

\* a response nothing has been written to (status 0: not yet set)
FreshResponse == [status |-> 0, body |-> "-", frames |-> <<>>, ended |-> FALSE,
                  sse |-> FALSE, headers |-> {}]

\* ppCalls, prCalls: calls of processPrompt and of processResponse; pings:
\* GET /ping requests served, ping: the answer to the last of them, pingAt:
\* where the other request stood then; late500: res.status(500).send(...) was
\* called on a response whose head was already out; meta: the correlation
\* metadata the route handed to the adapter, which logRequest writes as
\* data.meta of every record of the request
NoMeta == [model |-> FALSE, headers |-> {}, ip |-> "-", path |-> "-", method |-> "-"]

NoObs == [logFailed |-> FALSE, promptThrew |-> FALSE, respThrew |-> FALSE,
          prCalls |-> 0, fed |-> <<>>, lateWrite |-> FALSE, closedAt |-> "-",
          ppCalls |-> 0, pings |-> 0, ping |-> [status |-> 0, body |-> "-"],
          pingAt |-> "-", late500 |-> FALSE, meta |-> NoMeta]

\* the proxy process before a request arrives
HandlerIdle ==
    /\ rq = NoRequest
    /\ hpc = "idle"
    /\ up = NoCall
    /\ res = FreshResponse
    /\ pending = {}
    /\ stream = "none"
    /\ reqClosed = FALSE
    /\ obs = NoObs

\* ---------------------------------------------------- the log at rest
\* days and times of day the clock runs through
MaxDay == 2
MaxTick == 1

Days == 1..MaxDay

Digit(n) == <<"0", "1", "2", "3", "4", "5", "6", "7", "8", "9">>[n + 1]

\* the name of the day's file, from the date of `now`
Filename(now) == <<Digit(now.day), ".log">>

FileNames == {Filename([day |-> d, tick |-> 0]) : d \in Days}

NoRecord == [ok |-> FALSE, phase |-> <<>>, data |-> <<>>,
             at |-> [day |-> 1, tick |-> 0], n |-> 0]

\* the adapter before its first call: no file written yet
LoggerIdle ==
    /\ clock = [day |-> 1, tick |-> 0]
    /\ logFiles = [f \in FileNames |-> <<>>]
    /\ msg = NoMessage
    /\ lastRec = NoRecord

\* the manager after construction
ManagerInit ==
    /\ proxyPort = Null
    /\ proxyProcess = Null
    /\ healthCheckInterval = FALSE
    /\ isStopped = FALSE
    /\ child = [c \in Children |-> FreeChild]
    /\ extBusy \in SUBSET Ports
    /\ task = [t \in Tasks |-> IdleTask]
    /\ stopLatch = FALSE
    /\ failLatch = FALSE
    /\ crashed = FALSE
    /\ last = NoEvent

\* ------------------------------------------------ the core manager at rest
MaxCoreChildren == 2

CoreChildren == 1..MaxCoreChildren

\* ports findFreePort() may be given by the system
CorePorts == {5000, 5001}

\* proc, port: this.coreProcess, this.corePort; kid: the spawned processes
\* ("free", "starting", "up": answers /control/health, "exited" on its own
\* or "killed", 'close' not yet emitted); pc: the await the pending call is suspended on; arg: the
\* port of that call; tries: health probes ensureCoreAvailable has made;
\* cfg: the port registered in mcp.json; timers: interval timers armed (the
\* class arms none); last: what the step just taken did
CoreAtRest ==
    [proc |-> Null, port |-> Null,
     kid |-> [k \in CoreChildren |-> [st |-> "free", port |-> Null]],
     pc |-> "idle", arg |-> Null, tries |-> 0, cfg |-> Null, timers |-> 0,
     last |-> [op |-> "none", val |-> "-", ok |-> FALSE]]

CoreIdle == core = CoreAtRest

\* ---------------------------------------------- the journal at rest
\* requests served at once
MaxRequests == 2

Requests == 1..MaxRequests

\* st: "none" (not arrived), "prompted" (processPrompt has returned),
\* "failed" (processPrompt rejected: the 500 of the catch block); outs:
\* calls of processResponse made for it
NoTraffic == [i \in Requests |-> [st |-> "none", outs |-> 0]]

\* dir: "absent" (no such directory; mkdirSync would make it), "blocked" (no
\* such directory, and mkdirSync fails), "readonly" (it exists; no file can
\* be created in it), "writable"
DirStates == {"absent", "blocked", "readonly", "writable"}

\* n: calls of logRequest; skipped: the last one returned at its flag test;
\* existsChecked, permChecked: it ran ensureLogDirectoryExists,
\* checkWritePermissions; wrote: it wrote its line
NoAudit == [n |-> 0, skipped |-> FALSE, existsChecked |-> FALSE,
            permChecked |-> FALSE, wrote |-> FALSE]

\* no request is being served, and the flag adapter is not in use
JournalIdle ==
    /\ inflight = NoTraffic
    /\ calls = <<>>
    /\ fsys = [home |-> TRUE, dir |-> "writable"]
    /\ fileLoggingEnabled = FALSE
    /\ logDir = FALSE
    /\ audit = NoAudit

\* a host started without the proxy-URL variable, with node installed
HostDefault == processEnv = [proxyUrl |-> FALSE, node |-> TRUE]

\* the extension host after activation; its proxy has no request
Init ==
    /\ ManagerInit
    /\ adapter = "shipped"
    /\ HandlerIdle
    /\ LoggerIdle
    /\ HostDefault
    /\ CoreIdle
    /\ JournalIdle

\* ------------------------------------------------------------- stopProxy
\* a faulty stopProxy that detaches the handle and keeps the port (a slip C31
\* excludes)
stopProxy_KeepPort(ch) ==
    /\ healthCheckInterval' = FALSE
    /\ IF proxyProcess # Null
       THEN /\ isStopped' = TRUE
            /\ child' = Kill(ch, proxyProcess)
            /\ proxyProcess' = Null
            /\ proxyPort' = proxyPort
       ELSE /\ child' = ch
            /\ UNCHANGED <<isStopped, proxyProcess, proxyPort>>

\* stopProxy(), the children being ch: clears the timer; kills and detaches
\* the child only when a handle is attached, and only then sets isStopped
stopProxy(ch) ==
    /\ healthCheckInterval' = FALSE
    /\ IF proxyProcess # Null
       THEN /\ isStopped' = TRUE
            /\ child' = Kill(ch, proxyProcess)
            /\ proxyProcess' = Null
            /\ proxyPort' = Null
       ELSE /\ child' = ch
            /\ UNCHANGED <<isStopped, proxyProcess, proxyPort>>

\* a caller's stopProxy()
CallStop ==
    /\ stopProxy(child)
    /\ UNCHANGED restVars
    /\ stopLatch' = TRUE
    /\ last' = [NoEvent EXCEPT !.op = "stopProxy"]
    /\ UNCHANGED <<extBusy, task, failLatch, crashed>>

\* -------------------------------------------------------- isProxyAvailable
\* the head of isProxyAvailable(): `if (!this.proxyPort) return false`, no fetch
NoPortAssigned(port) == port = Null

\* a faulty url: the fetch goes to the first port of the range whatever port
\* is assigned (a slip C8 excludes)
ProbeTarget_FirstPort(port) == PortLo

\* the port of the url the fetch goes to, the manager having assignment `port`
ProbeTarget(port) == port

\* the fetch of task t is answered
ProbeAnswer(t) ==
    /\ task[t].pc \in {"ens_sent", "start_sent", "tick_sent", "av_sent"}
    /\ UNCHANGED restVars
    /\ LET got == CASE task[t].pc = "ens_sent" -> "ens_got"
                    [] task[t].pc = "start_sent" -> "start_got"
                    [] task[t].pc = "tick_sent" -> "tick_got"
                    [] OTHER -> "av_got"
       IN task' = [task EXCEPT ![t].pc = got,
                               ![t].ok = task[t].ok /\ PingOk(task[t].probe)]
    /\ last' = NoEvent
    /\ UNCHANGED <<pmVars, child, extBusy, stopLatch, failLatch, crashed>>

\* a caller's isProxyAvailable()
CallAvail ==
    /\ HasFreeTask
    /\ UNCHANGED restVars
    /\ IF NoPortAssigned(proxyPort)
       THEN /\ last' = [NoEvent EXCEPT !.op = "avail_ret", !.val = "F",
                                       !.kind = "avail"]
            /\ UNCHANGED task
       ELSE /\ task' = [task EXCEPT ![NewTask] =
                          [IdleTask EXCEPT !.pc = "av_sent", !.kind = "avail",
                                           !.probe = ProbeTarget(proxyPort),
                                           !.asg = proxyPort,
                                           !.ok = Listening(child, ProbeTarget(proxyPort))]]
            /\ last' = NoEvent
    /\ UNCHANGED <<pmVars, child, extBusy, stopLatch, failLatch, crashed>>

\* the caller's isProxyAvailable() returns response.ok
AvailGot(t) ==
    /\ task[t].pc = "av_got"
    /\ UNCHANGED restVars
    /\ task' = [task EXCEPT ![t] = IdleTask]
    /\ last' = RetEvent("avail_ret", IF task[t].ok THEN "T" ELSE "F", task[t])
    /\ UNCHANGED <<pmVars, child, extBusy, stopLatch, failLatch, crashed>>

\* -------------------------------------------------------------- startProxy
\* setupHealthCheck(): clears the previous interval and arms a new one
setupHealthCheck == healthCheckInterval' = TRUE

\* the synchronous head of startProxy(port) in task slot t, up to its settle
\* delay, the children being ch and the handle and port h: spawn, attach the
\* handle, register the close handler, assign the port, clear isStopped, arm
\* the timer.  A throwing spawn is caught: false, nothing assigned.  A spawn
\* that finds no `node` returns a ChildProcess all the same.
startProxy(t, kind, auto, port, ch, h) ==
    \/ /\ HasFreeChild(ch)
       /\ child' = [ch EXCEPT ![NewChild(ch)] =
                       [st |-> IF processEnv.node THEN "starting" ELSE "failed",
                        port |-> port, by |-> t]]
       /\ proxyProcess' = NewChild(ch)
       /\ proxyPort' = port
       /\ isStopped' = FALSE
       /\ setupHealthCheck
       /\ task' = [task EXCEPT ![t] =
                     [IdleTask EXCEPT !.pc = "settle", !.kind = kind,
                                      !.auto = auto, !.port = port]]
       /\ last' = [NoEvent EXCEPT !.op = "start_head", !.val = "spawned",
                                  !.kind = kind, !.auto = auto, !.port = port,
                                  !.preProc = h.proc, !.prePort = h.port,
                                  !.close = h.close]
    \/ /\ child' = ch
       /\ proxyProcess' = h.proc
       /\ proxyPort' = h.port
       /\ UNCHANGED <<isStopped, healthCheckInterval>>
       /\ task' = [task EXCEPT ![t] = IdleTask]
       /\ last' = [NoEvent EXCEPT !.op = "start_head", !.val = "threw",
                                  !.kind = kind, !.auto = auto, !.port = port,
                                  !.preProc = h.proc, !.prePort = h.port,
                                  !.close = h.close]

\* the settle delay is over: isProxyAvailable(); with no port assigned it is
\* false at once, and startProxy stops and returns false
Settle(t) ==
    /\ task[t].pc = "settle"
    /\ UNCHANGED restVars
    /\ IF NoPortAssigned(proxyPort)
       THEN /\ stopProxy(ClearBy(child, t))
            /\ task' = [task EXCEPT ![t] = IdleTask]
            /\ last' = RetEvent("start_ret", "F", task[t])
       ELSE /\ task' = [task EXCEPT ![t].pc = "start_sent",
                                     ![t].probe = ProbeTarget(proxyPort),
                                     ![t].asg = proxyPort,
                                     ![t].ok = Listening(child, ProbeTarget(proxyPort))]
            /\ last' = NoEvent
            /\ UNCHANGED <<pmVars, child>>
    /\ failLatch' = FailLatchAfter(last', failLatch)
    /\ UNCHANGED <<extBusy, stopLatch, crashed>>

\* a startProxy that fails when the variable is not set (a slip C26
\* excludes)
StartVerdict_RequireUrl(isAvailable, proxyUrl) ==
    [ret |-> isAvailable /\ proxyUrl, warn |-> isAvailable /\ ~proxyUrl]

\* what startProxy returns once its probe has answered, and whether it warns:
\* the variable is read only after the probe succeeded, and only to log
StartVerdict(isAvailable, proxyUrl) ==
    [ret |-> isAvailable, warn |-> isAvailable /\ ~proxyUrl]

\* startProxy from the answer of its probe on, in a host where the variable
\* is set or not (proxyUrl), leaving the event ev: not available ->
\* stopProxy(), false
StartTail(t, proxyUrl, ev) ==
    LET v == StartVerdict(task[t].ok, proxyUrl) IN
    /\ task' = [task EXCEPT ![t] = IdleTask]
    /\ IF v.ret
       THEN /\ ev = [RetEvent("start_ret", "T", task[t]) EXCEPT !.warn = v.warn]
            /\ child' = ClearBy(child, t)
            /\ UNCHANGED pmVars
       ELSE /\ stopProxy(ClearBy(child, t))
            /\ ev = RetEvent("start_ret", "F", task[t])

\* the probe of startProxy answered
StartGot(t) ==
    /\ task[t].pc = "start_got"
    /\ UNCHANGED restVars
    /\ StartTail(t, processEnv.proxyUrl, last')
    /\ failLatch' = FailLatchAfter(last', failLatch)
    /\ UNCHANGED <<extBusy, stopLatch, crashed>>

\* ---------------------------------------------------- ensureProxyAvailable
\* ensureProxyAvailable() in task slot t, up to its first suspension, the
\* children being ch and the handle and port h: isProxyAvailable() sends its
\* fetch, or (no port) is false at once, and then findFreeProxyPort() and the
\* head of startProxy run
ensureProxyAvailable(t, auto, ch, h) ==
    IF NoPortAssigned(h.port)
    THEN startProxy(t, "ensure", auto, findFreeProxyPort(ch), ch, h)
    ELSE /\ task' = [task EXCEPT ![t] =
                       [IdleTask EXCEPT !.pc = "ens_sent", !.kind = "ensure",
                                        !.auto = auto,
                                        !.probe = ProbeTarget(h.port),
                                        !.asg = h.port,
                                        !.ok = Listening(ch, ProbeTarget(h.port))]]
         /\ child' = ch
         /\ proxyProcess' = h.proc
         /\ proxyPort' = h.port
         /\ UNCHANGED <<isStopped, healthCheckInterval>>
         /\ last' = [NoEvent EXCEPT !.close = h.close]

\* a caller's ensureProxyAvailable()
CallEnsure ==
    /\ HasFreeTask
    /\ UNCHANGED restVars
    /\ ensureProxyAvailable(NewTask, FALSE, child, Here)
    /\ stopLatch' = FALSE
    /\ failLatch' = FailLatchAfter(last', FALSE)
    /\ UNCHANGED <<extBusy, crashed>>

\* a faulty ensureProxyAvailable that starts a proxy whatever its probe
\* answered (a slip C7 excludes)
EnsureGot_AlwaysStart(t) ==
    /\ task[t].pc = "ens_got"
    /\ UNCHANGED restVars
    /\ startProxy(t, "ensure", task[t].auto, findFreeProxyPort(child), child, Here)
    /\ failLatch' = FailLatchAfter(last', failLatch)
    /\ UNCHANGED <<extBusy, stopLatch, crashed>>

\* the probe of ensureProxyAvailable answered: true -> return true;
\* false -> findFreeProxyPort() and startProxy(port)
EnsureGot(t) ==
    /\ task[t].pc = "ens_got"
    /\ UNCHANGED restVars
    /\ IF task[t].ok
       THEN /\ task' = [task EXCEPT ![t] = IdleTask]
            /\ last' = RetEvent("ensure_ret", "T", task[t])
            /\ UNCHANGED <<pmVars, child>>
       ELSE startProxy(t, "ensure", task[t].auto, findFreeProxyPort(child),
                       child, Here)
    /\ failLatch' = FailLatchAfter(last', failLatch)
    /\ UNCHANGED <<extBusy, stopLatch, crashed>>

\* ------------------------------------------------- health check, restart
\* the interval callback of setupHealthCheck fires.  Every startProxy re-arms
\* the 30000 ms interval when it begins its 2000 ms settle delay, so the
\* callback never runs while a settle delay is pending
NoSettlePending == \A t \in Tasks : task[t].pc # "settle"

Tick ==
    /\ healthCheckInterval
    /\ UNCHANGED restVars
    /\ NoSettlePending
    /\ HasFreeTask
    /\ IF NoPortAssigned(proxyPort)
       THEN UNCHANGED task
       ELSE task' = [task EXCEPT ![NewTask] =
                       [IdleTask EXCEPT !.pc = "tick_sent", !.kind = "tick",
                                        !.auto = TRUE,
                                        !.probe = ProbeTarget(proxyPort),
                                        !.asg = proxyPort,
                                        !.ok = Listening(child, ProbeTarget(proxyPort))]]
    /\ last' = [NoEvent EXCEPT !.op = "tick"]
    /\ UNCHANGED <<pmVars, child, extBusy, stopLatch, failLatch, crashed>>

\* the probe of the tick answered: restartProxy() unless available or stopped;
\* a tick that restarts without reading the stop flag (a slip C11 excludes)
TickGot_IgnoreStopped(t) ==
    /\ task[t].pc = "tick_got"
    /\ UNCHANGED restVars
    /\ IF ~task[t].ok
       THEN /\ stopProxy(child)
            /\ task' = [task EXCEPT ![t] =
                          [IdleTask EXCEPT !.pc = "restart_wait", !.kind = "restart",
                                           !.auto = TRUE]]
            /\ last' = [NoEvent EXCEPT !.op = "restartProxy", !.kind = "restart",
                                       !.auto = TRUE]
       ELSE /\ task' = [task EXCEPT ![t] = IdleTask]
            /\ last' = NoEvent
            /\ UNCHANGED <<pmVars, child>>
    /\ UNCHANGED <<extBusy, stopLatch, failLatch, crashed>>

\* restartProxy() runs stopProxy() and then awaits its delay
TickGot(t) ==
    /\ task[t].pc = "tick_got"
    /\ UNCHANGED restVars
    /\ IF ~task[t].ok /\ ~isStopped
       THEN /\ stopProxy(child)
            /\ task' = [task EXCEPT ![t] =
                          [IdleTask EXCEPT !.pc = "restart_wait", !.kind = "restart",
                                           !.auto = TRUE]]
            /\ last' = [NoEvent EXCEPT !.op = "restartProxy", !.kind = "restart",
                                       !.auto = TRUE]
       ELSE /\ task' = [task EXCEPT ![t] = IdleTask]
            /\ last' = NoEvent
            /\ UNCHANGED <<pmVars, child>>
    /\ UNCHANGED <<extBusy, stopLatch, failLatch, crashed>>

\* the delay of restartProxy() is over: findFreeProxyPort(), startProxy(port)
RestartDelay(t) ==
    /\ task[t].pc = "restart_wait"
    /\ UNCHANGED restVars
    /\ startProxy(t, "restart", TRUE, findFreeProxyPort(child), child, Here)
    /\ UNCHANGED <<extBusy, stopLatch, failLatch, crashed>>

\* ------------------------------------------------------------ environment
\* the child's server.listen(PORT): listening, or EADDRINUSE ends the process
ChildListen(c) ==
    /\ child[c].st = "starting"
    /\ UNCHANGED restVars
    /\ child' = [child EXCEPT ![c].st =
                   IF PortHeld(child, child[c].port) THEN "dead" ELSE "up"]
    /\ last' = NoEvent
    /\ UNCHANGED <<pmVars, extBusy, task, stopLatch, failLatch, crashed>>

\* the child terminates on its own
ChildExit(c) ==
    /\ Alive(c)
    /\ UNCHANGED restVars
    /\ child' = [child EXCEPT ![c].st = "dead"]
    /\ last' = NoEvent
    /\ UNCHANGED <<pmVars, extBusy, task, stopLatch, failLatch>>

ChildCrash(c) == ChildExit(c) /\ UNCHANGED crashed

\* the child stops answering
ChildHang(c) ==
    /\ child[c].st = "up"
    /\ UNCHANGED restVars
    /\ child' = [child EXCEPT ![c].st = "hung"]
    /\ last' = NoEvent
    /\ UNCHANGED <<pmVars, extBusy, task, stopLatch, failLatch, crashed>>

\* the 'close' handler registered by startProxy for child c: clears the handle
\* and the port, and unless isStopped re-runs ensureProxyAvailable()
ChildClose(c) ==
    /\ child[c].st = "dead"
    /\ UNCHANGED restVars
    /\ LET ch == [child EXCEPT ![c] = FreeChild]
           ownExitInStart == child[c].by # Null /\ ~task[child[c].by].auto
       IN /\ IF ~isStopped
             THEN /\ HasFreeTask
                  /\ ensureProxyAvailable(NewTask, TRUE, ch,
                        [proc |-> Null, port |-> Null, close |-> "restart"])
             ELSE /\ child' = ch
                  /\ proxyProcess' = Null
                  /\ proxyPort' = Null
                  /\ last' = [NoEvent EXCEPT !.close = "stopped"]
                  /\ UNCHANGED <<healthCheckInterval, isStopped, task>>
          /\ failLatch' = (failLatch \/ ownExitInStart)
    /\ UNCHANGED <<extBusy, stopLatch, crashed>>

\* the 'error' event of a ChildProcess whose spawn failed: startProxy
\* registers listeners for 'data' and 'close' only, so the emit throws, in a
\* tick of its own, and no 'close' follows
ChildError(c) ==
    /\ child[c].st = "failed"
    /\ UNCHANGED restVars
    /\ child' = [child EXCEPT ![c] = FreeChild]
    /\ last' = [NoEvent EXCEPT !.op = "uncaught"]
    /\ UNCHANGED <<pmVars, extBusy, task, stopLatch, failLatch, crashed>>

TaskStep(t) ==
    \/ ProbeAnswer(t)
    \/ AvailGot(t)
    \/ EnsureGot(t)
    \/ Settle(t)
    \/ StartGot(t)
    \/ TickGot(t)
    \/ RestartDelay(t)

Next ==
    \/ CallEnsure
    \/ CallStop
    \/ CallAvail
    \/ Tick
    \/ \E t \in Tasks : TaskStep(t)
    \/ \E c \in Children : ChildListen(c)
    \/ \E c \in Children : ChildCrash(c)
    \/ \E c \in Children : ChildHang(c)
    \/ \E c \in Children : ChildClose(c)

Spec == Init /\ [][Next]_vars

\* The manager with callers that never stop it and children that neither
\* exit nor hang on their own: every behaviour of QuietSpec is one of Spec
QuietNext ==
    \/ CallEnsure
    \/ CallAvail
    \/ Tick
    \/ \E t \in Tasks : TaskStep(t)
    \/ \E c \in Children : ChildListen(c)
    \/ \E c \in Children : ChildClose(c)

QuietSpec == Init /\ [][QuietNext]_vars

\* The manager recovering from one exit of its child.  No other process holds
\* a port, spawn does not throw, a child that is left alone is listening
\* before the settle delay of the startProxy that spawned it is over, no child
\* hangs, and one child exits on its own, once.  The 'close' of an exited
\* child is delivered before any timer is and before the caller's next call.
\* A caller starts the proxy when no call is in flight and never stops it.
LiveInit == Init /\ extBusy = {}

ChildrenOfUp(t) == \A c \in Children : child[c].by = t => child[c].st # "starting"

ClosesDelivered == \A c \in Children : child[c].st # "dead"

NoThrow == last'.val # "threw"

LiveCallEnsure ==
    /\ \A t \in Tasks : TaskIdle(t)
    /\ ClosesDelivered
    /\ CallEnsure
    /\ NoThrow

LiveSettle(t) == ClosesDelivered /\ ChildrenOfUp(t) /\ Settle(t)

LiveTick == ClosesDelivered /\ Tick

LiveTaskStep(t) ==
    \/ ProbeAnswer(t)
    \/ EnsureGot(t) /\ NoThrow
    \/ LiveSettle(t)
    \/ StartGot(t)
    \/ TickGot(t)
    \/ ClosesDelivered /\ RestartDelay(t) /\ NoThrow

LiveCrash(c) == ~crashed /\ ChildExit(c) /\ crashed' = TRUE

LiveClose(c) == ChildClose(c) /\ NoThrow

LiveNext ==
    \/ LiveCallEnsure
    \/ LiveTick
    \/ \E t \in Tasks : LiveTaskStep(t)
    \/ \E c \in Children : ChildListen(c)
    \/ \E c \in Children : LiveCrash(c)
    \/ \E c \in Children : LiveClose(c)

\* every timer, every fetch and every child event of the event loop is
\* eventually delivered; callers and the out-of-band exit are not obliged
LiveSpec ==
    /\ LiveInit
    /\ [][LiveNext]_vars
    /\ \A t \in Tasks : WF_vars(LiveTaskStep(t))
    /\ \A c \in Children : WF_vars(ChildListen(c))
    /\ \A c \in Children : WF_vars(LiveClose(c))
    /\ WF_vars(LiveTick)

TypeOK ==
    /\ proxyPort \in Ports \cup {Null}
    /\ proxyProcess \in Children \cup {Null}
    /\ healthCheckInterval \in BOOLEAN
    /\ isStopped \in BOOLEAN
    /\ extBusy \subseteq Ports
    /\ \A c \in Children : child[c].port \in Ports \cup {Null}
    /\ \A t \in Tasks : task[t].port \in Ports \cup {Null}

\* ================================================================ claims
\* isProxyAvailable() run to its answer in the current state
IsAvailableNow == proxyPort # Null /\ PingOk(proxyPort)

StartReturned(v) ==
    \/ last.op = "start_ret" /\ last.val = v
    \/ v = "F" /\ last.op = "start_head" /\ last.val = "threw"

EnsureReturned(v) ==
    \/ v = "T" /\ last.op = "ensure_ret" /\ last.val = "T"
    \/ last.kind = "ensure" /\ StartReturned(v)

Spawned == last.op = "start_head" /\ last.val = "spawned"

\* C1: at most one spawned child is alive, and every live child is the one
\* proxyProcess refers to
C1_OneLiveChildWithHandle ==
    \A c \in Children : Alive(c) => proxyProcess = c

\* C2: startProxy(port) entered while a handle is attached spawns no child and
\* leaves the handle and the port as they were
C2_StartRefusesWhenAttached ==
    (last.op = "start_head" /\ last.preProc # Null)
        => /\ last.val # "spawned"
           /\ proxyProcess = last.preProc
           /\ proxyPort = last.prePort

\* C3: once a caller's stopProxy() has returned, no child is spawned until a
\* caller invokes startProxy or ensureProxyAvailable: while no caller has
\* invoked one since the stop, no call begun by the manager itself (exit
\* handler, health-check tick, restartProxy) spawns
C3_NoSpawnAfterStop == ~(stopLatch /\ Spawned /\ last.auto)

\* C4: when stopProxy() returns, isStopped is true, the handle and the port are
\* cleared, no timer is armed, and isProxyAvailable() is false
C4_StopLeavesStopped ==
    last.op = "stopProxy"
        => /\ isStopped
           /\ proxyProcess = Null
           /\ proxyPort = Null
           /\ ~healthCheckInterval
           /\ ~IsAvailableNow

\* C5: when a child's exit reaches the exit handler with isStopped false (the
\* handler clears the handle and the port and re-runs ensureProxyAvailable),
\* the manager eventually has a port assigned whose /ping answers ok
C5_ExitLeadsToAvailable == (last.close = "restart") ~> IsAvailableNow

\* C6: when ensureProxyAvailable() resolves to true, a port is assigned, a
\* handle is attached, and isProxyAvailable() called next returns true
C6_EnsureTrueMeansAvailable ==
    EnsureReturned("T")
        => /\ proxyPort # Null
           /\ proxyProcess # Null
           /\ IsAvailableNow

ProbePcs == {"ens_sent", "ens_got", "start_sent", "start_got", "tick_sent",
             "tick_got", "av_sent", "av_got"}

\* C8: isProxyAvailable() returns true only if a port was assigned when it was
\* entered and GET /ping against exactly that port answered ok; with no port
\* assigned it returns false and sends no fetch
C8_AvailableOnlyIfProbeOk ==
    /\ \A t \in Tasks : task[t].pc \in ProbePcs
          => task[t].asg # Null /\ task[t].probe = task[t].asg
    /\ (last.op \in {"avail_ret", "ensure_ret", "start_ret"} /\ last.val = "T")
          => last.probe # Null /\ last.ok
    /\ (last.op = "avail_ret" /\ last.probe = Null) => last.val = "F"

C8_Witness == last.op = "avail_ret" /\ last.val = "T"

\* C9: startProxy(port) returns true only if its probe succeeded against the
\* child it spawned on `port`; when it returns false after its probe the
\* manager has no handle, no port and no timer
C9_StartTrueOnlyIfOwnChildHealthy ==
    /\ (last.op = "start_ret" /\ last.val = "T") => last.probe = last.port
    /\ (last.op = "start_ret" /\ last.val = "F")
          => proxyProcess = Null /\ proxyPort = Null /\ ~healthCheckInterval

\* C10: after a start on a caller's path has failed (spawn threw, its child
\* exited before it returned, or it returned false), the manager itself spawns
\* no child until a caller invokes ensureProxyAvailable again
C10_NoAutoSpawnAfterFailedStart == ~(failLatch /\ Spawned /\ last.auto)

\* ---------------------------------------------------------------- C11, C12
\* C11: a health-check tick whose probe failed while the stop flag is false
\* stops the current child (handle and port cleared, timer cancelled) and only
\* then, after the delay, allocates a port anew and starts a child on that
\* port; a tick that finds the stop flag true or the probe fine restarts nothing
C11_TickRestartCycle ==
    [][\A t \in Tasks :
          /\ (task[t].pc = "tick_got" /\ task'[t] # task[t]) =>
                IF ~task[t].ok /\ ~isStopped
                THEN /\ proxyProcess' = Null
                     /\ proxyPort' = Null
                     /\ ~healthCheckInterval'
                     /\ task'[t].pc = "restart_wait"
                     /\ \A c \in Children : child'[c].st # "free" => child[c].st # "free"
                     /\ proxyProcess # Null => child'[proxyProcess].st = "dead"
                ELSE /\ TaskIdle(t)'
                     /\ UNCHANGED <<pmVars, child>>
          /\ (task[t].pc = "restart_wait" /\ task'[t] # task[t]) =>
                /\ last'.op = "start_head"
                /\ last'.port = findFreeProxyPort(child)
                /\ last'.kind = "restart"
                /\ proxyProcess' # proxyProcess =>
                      /\ proxyPort' = findFreeProxyPort(child)
                      /\ child[proxyProcess'].st = "free"
                      /\ child'[proxyProcess'].port = findFreeProxyPort(child)
                      /\ healthCheckInterval'
    ]_vars

\* a restart ordered by a tick has spawned its child
C11_Witness ==
    /\ last.op = "start_head"
    /\ last.kind = "restart"
    /\ proxyProcess # Null
    /\ child[proxyProcess].st = "starting"


\* the ports of the range that a bind would get
FreePorts(ch) == {p \in Ports : isPortFree(ch, p)}

\* C12: findFreeProxyPort returns the lowest port of the range that its
\* bind-then-close probe finds free, a port its single caller can bind right
\* away; with no free port it returns the fallback 7001; the result is always
\* inside the range
C12_LowestFreePortOrFallback ==
    LET r == findFreeProxyPort(child) IN
    /\ r \in Ports
    /\ FreePorts(child) # {} =>
          /\ r \in FreePorts(child)
          /\ \A q \in FreePorts(child) : r <= q
          /\ ~PortHeld(child, r)
    /\ FreePorts(child) = {} => r = FallbackPort

\* a start went to a port above the first one because the scan passed over a
\* busy port
C12_Witness ==
    /\ last.op = "start_head"
    /\ last.port > PortLo
    /\ PortHeld(child, PortLo)


\* =================================================================== proxy
\* The proxy process (src/src/proxy/proxy.ts) serving one request.  A step is
\* one turn of its event loop.  The handlers are suspended at the fetch, at
\* the read of a buffered upstream body, and between the chunks of a streamed
\* one.  OrchestratorAdapter (src/src/proxy/orchestrator-adapter.ts) logs
\* synchronously and has no await of its own: its promises are settled when
\* the call returns ("shipped").  "deferred" is an adapter whose
\* processResponse awaits work of its own, so that its promises settle in
\* later turns, in any order.

\* upstream events ahead of the sentinel in one streamed answer
MaxEvents == 2

Payloads == {"a", "b"}
UpStatuses == {200, 429, 500}
DebugPrefix == "[DEBUG] "

FirstMessages ==
    {NoMessage, [is |-> "null", content |-> <<>>],
     [is |-> "msg", content |-> <<>>], [is |-> "msg", content |-> <<"hi">>]}

\* the event payloads of a streamed answer: with or without the sentinel
UpstreamStreams ==
    {b \o t : b \in UNION {[1..n -> Payloads] : n \in 0..MaxEvents},
              t \in {<<>>, <<Done>>}}

\* processPrompt(messages, meta) after its logRequest: the first message with
\* a non-empty content gets the prefix, in place
processPrompt(first) ==
    IF first.is = "msg" /\ first.content # <<>>
    THEN [first EXCEPT !.content = <<DebugPrefix>> \o @]
    ELSE first

\* processPrompt rejects: logRequest threw, or messages[0] is null
PromptThrows(first, logOk) == ~logOk \/ first.is = "null"

\* processResponse(chunk, meta) after its logRequest
processResponse(chunk) == chunk

\* the 500 of a catch block
Send500(r) == [r EXCEPT !.status = 500, !.body = InternalError, !.ended = TRUE]

\* ---------------------------------------------- the requests of a caller
ChatPath == "/v1/chat/completions"

\* paths the catch-all route gets, with and without a query
Urls == {"/v1/models", "/v1/models?limit=1"}

Methods == {"GET", "POST", "DELETE"}

\* the methods the catch-all route sends a body for
BodyMethods == {"POST", "PUT", "PATCH"}

\* the body on the wire: none, a JSON document written as JSON.stringify
\* writes it, or the same document written with other white space
CallerBodies == {"none", "json", "spaced"}

\* headers as name and value; a header may be sent with an empty value
CallerHeaders ==
    {{<<"host", "proxy">>} \cup c \cup a \cup x :
        c \in {{}, {<<"connection", "keep-alive">>}},
        a \in {{}, {<<"authorization", "key">>}},
        x \in {{}, {<<"x-trace", "">>}, {<<"x-trace", "1">>}}}

\* the members a chat-completions body may have
BodyFields == {"model", "messages", "stream", "user"}

\* POST /v1/chat/completions with a JSON body: messages[0] is there only
\* when messages is, and stream is true only when stream is there
ChatRequests ==
    {r \in [route : {"chat"}, stream : BOOLEAN, first : FirstMessages,
            method : {"POST"}, url : {ChatPath},
            headers : {h \in CallerHeaders :
                          \A e \in h : e[1] \in {"host", "authorization"}},
            payload : {"json"}, fields : SUBSET BodyFields] :
        /\ r.first.is # "absent" => "messages" \in r.fields
        /\ r.stream => "stream" \in r.fields}

\* any other request: a GET has no body, a POST has one
OtherRequests ==
    {r \in [route : {"other"}, stream : {FALSE}, first : {NoMessage},
            method : Methods, url : Urls, headers : CallerHeaders,
            payload : CallerBodies, fields : {{}}] :
        /\ r.method = "GET" => r.payload = "none"
        /\ r.method = "POST" => r.payload # "none"
        /\ r.method = "DELETE" => r.payload # "spaced"}

\* JSON.stringify(req.body) of a body express.json() has parsed
Restringify(payload) == IF payload = "none" THEN "none" ELSE "json"

\* the headers the chat route gives fetch: the Authorization of the caller
\* or the empty string in its place
ChatCallHeaders(hs) ==
    {<<"content-type", "application/json">>, <<"openai-organization", "">>}
        \cup (IF \E e \in hs : e[1] = "authorization"
              THEN {e \in hs : e[1] = "authorization"}
              ELSE {<<"authorization", "">>})

\* the headers the catch-all route gives fetch
ForwardHeaders(hs) ==
    {e \in hs : e[2] # "" /\ e[1] # "host" /\ e[1] # "connection"}

\* the fetch of the chat route: the body of the caller with messages set
ChatCall(r) ==
    [up EXCEPT !.st = "sent", !.calls = @ + 1,
               !.body = Body(processPrompt(r.first), r.stream),
               !.method = "POST", !.url = ChatPath,
               !.headers = ChatCallHeaders(r.headers),
               !.payload = "json",
               !.fields = r.fields \cup {"messages"}]

\* the fetch of the catch-all route
ForwardCall(r) ==
    [up EXCEPT !.st = "sent", !.calls = @ + 1,
               !.body = Body(r.first, r.stream),
               !.method = r.method, !.url = r.url,
               !.headers = ForwardHeaders(r.headers),
               !.payload = IF r.method \in BodyMethods
                           THEN Restringify(r.payload) ELSE "none",
               !.fields = {}]

\* the address of the caller, as req.ip gives it
CallerIp == "127.0.0.1"

\* the meta of the chat route: model: requestBody.model is there; headers:
\* req.headers, all of them
Meta(r) ==
    [model |-> "model" \in r.fields, headers |-> r.headers, ip |-> CallerIp,
     path |-> r.url, method |-> r.method]

\* a request arrives and its route handler runs up to its fetch
Arrive ==
    /\ hpc = "idle"
    /\ \E r \in ChatRequests \cup OtherRequests, logOk \in BOOLEAN :
          /\ r.route = "other" => logOk
          /\ rq' = r
          /\ IF r.route = "chat" /\ PromptThrows(r.first, logOk)
             THEN /\ res' = Send500(res)
                  /\ hpc' = "done"
                  /\ obs' = [obs EXCEPT !.logFailed = ~logOk, !.promptThrew = TRUE,
                                        !.ppCalls = @ + 1, !.meta = Meta(r)]
                  /\ UNCHANGED up
             ELSE /\ res' = [res EXCEPT !.sse = r.route = "chat" /\ r.stream]
                  /\ hpc' = "fetch"
                  /\ up' = IF r.route = "chat" THEN ChatCall(r) ELSE ForwardCall(r)
                  /\ obs' = [obs EXCEPT !.ppCalls =
                                          IF r.route = "chat" THEN @ + 1 ELSE @,
                                        !.meta =
                                          IF r.route = "chat" THEN Meta(r) ELSE @]
    /\ UNCHANGED <<adapter, pending, stream, reqClosed, managerVars, loggerVars, hostVars, coreVars, journalVars>>

\* the status res.status(...) gets when upstream did not answer 2xx
ErrorStatus_Always500(s) == 500

ErrorStatus(s) == s

\* the headers of an upstream response
UpstreamHeaders == {{}, {<<"content-type", "application/json">>}}

\* the fetch settles: it rejects, or the response headers are here
FetchSettle ==
    /\ hpc = "fetch"
    /\ \/ /\ up' = [up EXCEPT !.st = "failed"]
          /\ res' = Send500(res)
          /\ hpc' = "done"
          /\ UNCHANGED stream
       \/ \E status \in UpStatuses :
             IF rq.route = "other"
             THEN /\ \E rh \in UpstreamHeaders :
                        /\ up' = [up EXCEPT !.st = "head", !.status = status,
                                            !.text = "payload", !.rheaders = rh]
                        /\ res' = [res EXCEPT !.status = status, !.headers = rh]
                  /\ hpc' = "buffer"
                  /\ UNCHANGED stream
             ELSE IF status # 200
             THEN /\ up' = [up EXCEPT !.st = "head", !.status = status,
                                      !.text = "upstream error"]
                  /\ hpc' = "errText"
                  /\ UNCHANGED <<res, stream>>
             ELSE IF rq.stream
             THEN /\ \E evs \in UpstreamStreams :
                        up' = [up EXCEPT !.st = "head", !.status = status,
                                         !.events = evs, !.all = evs]
                  /\ stream' = "flowing"
                  /\ hpc' = "streaming"
                  /\ UNCHANGED res
             ELSE /\ up' = [up EXCEPT !.st = "head", !.status = status,
                                      !.text = "completion"]
                  /\ hpc' = "json"
                  /\ UNCHANGED <<res, stream>>
    /\ UNCHANGED <<adapter, rq, pending, reqClosed, obs, managerVars, loggerVars, hostVars, coreVars, journalVars>>

\* upstream answered non-2xx and its body text is here
ErrText ==
    /\ hpc = "errText"
    /\ res' = [res EXCEPT !.status = ErrorStatus(up.status), !.body = up.text,
                          !.ended = TRUE]
    /\ up' = [up EXCEPT !.st = "done"]
    /\ hpc' = "done"
    /\ UNCHANGED <<adapter, rq, pending, stream, reqClosed, obs, managerVars, loggerVars, hostVars, coreVars, journalVars>>

\* a res.json that sends the status line and no body (a slip C24 excludes)
json_NoBody(r, data) == [r EXCEPT !.status = 200, !.ended = TRUE]

\* res.json(data) on a response whose status has not been set
json(r, data) == [r EXCEPT !.status = 200, !.ended = TRUE, !.body = data]

\* the buffered JSON of a non-streaming answer is here: processResponse, then
\* res.json; a rejection of processResponse reaches the catch block
JsonGot ==
    /\ hpc = "json"
    /\ \E ok \in BOOLEAN :
          /\ res' = IF ok
                    THEN json(res, processResponse(up.text))
                    ELSE Send500(res)
          /\ obs' = [obs EXCEPT !.prCalls = @ + 1, !.respThrew = @ \/ ~ok,
                                !.fed = Append(@, up.text),
                                !.logFailed = @ \/ (~ok /\ adapter = "shipped")]
    /\ up' = [up EXCEPT !.st = "done"]
    /\ hpc' = "done"
    /\ UNCHANGED <<adapter, rq, pending, stream, reqClosed, managerVars, loggerVars, hostVars, coreVars, journalVars>>

\* the catch-all route: the buffered upstream body is here
BufferGot ==
    /\ hpc = "buffer"
    /\ res' = [res EXCEPT !.body = up.text, !.ended = TRUE]
    /\ up' = [up EXCEPT !.st = "done"]
    /\ hpc' = "done"
    /\ UNCHANGED <<adapter, rq, pending, stream, reqClosed, obs, managerVars, loggerVars, hostVars, coreVars, journalVars>>

\* res.write of one frame by a settled processResponse promise; w.then says
\* whether the promise resolved (then: a sentinel ends the response) or
\* rejected (catch)
WriteFrame(r, w) ==
    IF r.ended THEN r
    ELSE [r EXCEPT !.frames = Append(@, w.data),
                   !.status = IF @ = 0 THEN 200 ELSE @,
                   !.ended = w.then /\ w.data = Done]

RECURSIVE WriteFrames(_, _)
WriteFrames(r, ws) ==
    IF ws = <<>> THEN r ELSE WriteFrames(WriteFrame(r, Head(ws)), Tail(ws))

\* the reactions of one turn in the order the microtask queue runs them: the
\* then callbacks of the resolved promises, and after them the catch
\* callbacks of the rejected ones, which are queued one tick later
TurnWrites(chunk, oks) ==
    LET ws == [i \in 1..Len(chunk) |-> [data |-> processResponse(chunk[i]),
                                        then |-> oks[i]]]
    IN SelectSeq(ws, LAMBDA w : w.then) \o SelectSeq(ws, LAMBDA w : ~w.then)

\* stream.on('data'): a chunk holding n events is fed to the parser, whose
\* callback calls processResponse for each event
StreamData ==
    /\ hpc = "streaming"
    /\ stream = "flowing"
    /\ \E n \in 1..Len(up.events) :
          LET chunk == SubSeq(up.events, 1, n) IN
          /\ up' = [up EXCEPT !.events = SubSeq(@, n + 1, Len(@))]
          /\ IF adapter = "shipped"
             THEN \E oks \in [1..n -> BOOLEAN] :
                     LET ws == TurnWrites(chunk, oks)
                         r  == WriteFrames(res, ws)
                         th == \E i \in 1..n : ~oks[i]
                     IN /\ res' = r
                        /\ obs' = [obs EXCEPT
                                     !.prCalls = @ + n,
                                     !.fed = @ \o chunk,
                                     !.respThrew = @ \/ th,
                                     !.logFailed = @ \/ th,
                                     !.lateWrite = @ \/ Len(r.frames) <
                                                   Len(res.frames) + n]
                        /\ UNCHANGED pending
             ELSE /\ pending' = pending \cup
                        {[k |-> Len(obs.fed) + i, data |-> chunk[i]] : i \in 1..n}
                  /\ obs' = [obs EXCEPT !.prCalls = @ + n, !.fed = @ \o chunk]
                  /\ UNCHANGED res
    /\ UNCHANGED <<adapter, rq, hpc, stream, reqClosed, managerVars, loggerVars, hostVars, coreVars, journalVars>>

\* a processResponse promise of the deferred adapter settles
PromiseSettle ==
    /\ hpc # "crashed"
    /\ \E p \in pending, ok \in BOOLEAN :
          LET r == WriteFrame(res, [data |-> processResponse(p.data), then |-> ok]) IN
          /\ pending' = pending \ {p}
          /\ res' = r
          /\ obs' = [obs EXCEPT !.respThrew = @ \/ ~ok,
                                !.lateWrite = @ \/ r = res]
    /\ UNCHANGED <<adapter, rq, hpc, up, stream, reqClosed, managerVars, loggerVars, hostVars, coreVars, journalVars>>

\* stream.on('end'): the upstream body is read to its end
StreamEnd ==
    /\ hpc = "streaming"
    /\ stream = "flowing"
    /\ up.events = <<>>
    /\ stream' = "ended"
    /\ res' = [res EXCEPT !.ended = TRUE, !.status = IF @ = 0 THEN 200 ELSE @]
    /\ up' = [up EXCEPT !.st = "done"]
    /\ hpc' = "done"
    /\ UNCHANGED <<adapter, rq, pending, reqClosed, obs, managerVars, loggerVars, hostVars, coreVars, journalVars>>

\* the listener of stream.on('error'): res.status(500).send(...).  With no
\* frame written the head is not out and the 500 is sent; after the first
\* res.write the head is out, res.status only sets a field of res, and send
\* throws ERR_HTTP_HEADERS_SENT when it sets its headers
onStreamError(r) ==
    IF r.frames = <<>> /\ ~r.ended
    THEN [r |-> Send500(r), threw |-> FALSE, late |-> FALSE]
    ELSE [r |-> r, threw |-> TRUE, late |-> TRUE]

\* the upstream body fails before its end: stream emits 'error' and no 'end'.
\* An exception thrown by the listener is caught by nobody and ends the
\* proxy process
StreamError ==
    /\ hpc = "streaming"
    /\ stream = "flowing"
    /\ stream' = "errored"
    /\ up' = [up EXCEPT !.st = "failed"]
    /\ LET o == onStreamError(res)
       IN /\ res' = o.r
          /\ hpc' = IF o.threw THEN "crashed" ELSE "done"
          /\ obs' = [obs EXCEPT !.late500 = @ \/ o.late]
    /\ UNCHANGED <<adapter, rq, pending, reqClosed, managerVars, loggerVars, hostVars, coreVars, journalVars>>

\* the listener a route has on the close of req while it stands at pc:
\* only the streaming branch registers one, after its fetch has settled
CloseListener_None(pc) == FALSE

CloseListener(pc) == pc = "streaming"

\* the caller's connection closes: req emits 'close'
ReqClose ==
    /\ ~reqClosed
    /\ hpc \notin {"idle", "done", "crashed"}
    /\ reqClosed' = TRUE
    /\ obs' = [obs EXCEPT !.closedAt = hpc]
    /\ IF CloseListener(hpc) /\ stream = "flowing"
       THEN /\ stream' = "destroyed"
            /\ up' = [up EXCEPT !.st = "cancelled", !.aborted = TRUE]
       ELSE UNCHANGED <<stream, up>>
    /\ UNCHANGED <<adapter, rq, hpc, res, pending, managerVars, loggerVars, hostVars, coreVars, journalVars>>

\* the body of the answer of GET /ping
StatusOk == "{\"status\":\"ok\"}"

MaxPings == 1

\* a liveness answer that reports trouble (a slip C23 excludes)
PingReply_Unavailable == [status |-> 503, body |-> StatusOk]

\* res.status(200).json({ status: 'ok' })
PingReply == [status |-> 200, body |-> StatusOk]

\* GET /ping is served, whatever the other request is doing
Ping ==
    /\ hpc # "crashed"
    /\ obs.pings < MaxPings
    /\ obs' = [obs EXCEPT !.pings = @ + 1, !.ping = PingReply, !.pingAt = hpc]
    /\ UNCHANGED <<adapter, rq, hpc, up, res, pending, stream, reqClosed,
                   managerVars, loggerVars, hostVars, coreVars, journalVars>>

Adapters == {"shipped", "deferred"}

\* a proxy process, its manager left alone
ProxyInit ==
    /\ ManagerInit
    /\ extBusy = {}
    /\ adapter \in Adapters
    /\ HandlerIdle
    /\ LoggerIdle
    /\ HostDefault
    /\ CoreIdle
    /\ JournalIdle

ProxyNext ==
    \/ Arrive
    \/ FetchSettle
    \/ ErrText
    \/ JsonGot
    \/ BufferGot
    \/ StreamData
    \/ PromiseSettle
    \/ StreamEnd
    \/ StreamError
    \/ ReqClose
    \/ Ping


ProxySpec == ProxyInit /\ [][ProxyNext]_vars

\* ------------------------------------------------------- C13..C19: proxy
\* the frames a streamed answer owes the caller: every upstream payload
\* through processResponse, in upstream order
MappedEvents == [i \in 1..Len(up.all) |-> processResponse(up.all[i])]

IsPrefix(a, b) == Len(a) <= Len(b) /\ a = SubSeq(b, 1, Len(a))

StreamingOk == rq.route = "chat" /\ rq.stream /\ up.status = 200

\* C13: in a streamed answer of a successful upstream call, whatever the
\* speed at which processResponse settles, the frames written are the
\* upstream payloads through processResponse in upstream order, and when the
\* response is ended every one of them, the sentinel last, has been written
C13_FramesFollowUpstreamOrder ==
    (StreamingOk /\ ~obs.respThrew) =>
        /\ IsPrefix(res.frames, MappedEvents)
        /\ res.ended => res.frames = MappedEvents

\* C14: when processPrompt throws or rejects, the request is still forwarded
\* upstream, with the body the caller sent
C14_PromptErrorFailsOpen ==
    obs.promptThrew =>
        /\ up.calls = 1
        /\ up.body = Body(rq.first, rq.stream)

\* C15: when processResponse throws or rejects, the caller of a non-streaming
\* request still gets the upstream JSON with status 200, and a streamed answer
\* carries the unmodified payload in place of the failed one and ends with
\* every payload written
C15_ResponseErrorNeverSurfaces ==
    (rq.route = "chat" /\ up.status = 200 /\ obs.respThrew) =>
        /\ (~rq.stream /\ hpc = "done") =>
              res.status = 200 /\ res.body = up.text
        /\ rq.stream =>
              /\ IsPrefix(res.frames, up.all)
              /\ res.ended => res.frames = up.all

\* upstream has answered a chat-completions call with a status outside 2xx
UpstreamRefused == rq.route = "chat" /\ up.status \notin {0, 200}

C18_CloseAbortsUpstreamCall == reqClosed => up.aborted

\* C19: a failure of the exchange log never changes the outcome of the
\* request: processPrompt and processResponse still return, and the caller
\* does not get the 500 of a catch block
C19_LogFailureIsHarmless ==
    obs.logFailed =>
        /\ ~obs.promptThrew
        /\ ~obs.respThrew
        /\ ~(res.status = 500 /\ res.body = InternalError)


\* ================================================================ the log
\* logRequest of OrchestratorAdapter (orchestrator-adapter.ts 41-60): one
\* JSON line {ts, phase, data} appended to the file of the day.  Strings are
\* sequences of characters; `data` is kept as the one string it carries
\* (messages[0].content of processPrompt, the chunk of processResponse).

\* length of a logged string, and number of logRequest calls in a run
MaxLen == 2
MaxLines == 2

\* a plain character, and the three JSON.stringify has to escape
Chars == {"a", "\n", "\"", "\\"}

Contents == UNION {[1..n -> Chars] : n \in 0..MaxLen}

Inbound == <<"i", "n", "b", "o", "u", "n", "d">>
Outbound == <<"o", "u", "t", "b", "o", "u", "n", "d">>

KeyTs == <<"t", "s">>
KeyPhase == <<"p", "h", "a", "s", "e">>
KeyData == <<"d", "a", "t", "a">>

\* now.toISOString(), reduced to the day and the time of day
toISOString(now) == <<Digit(now.day), "T", Digit(now.tick), "Z">>

\* a stringify that writes every character as it is (a slip C20 excludes)
Escape_Raw(c) == <<c>>

\* JSON.stringify of one character of a string
Escape(c) ==
    CASE c = "\n" -> <<"\\", "n">>
      [] c = "\"" -> <<"\\", "\"">>
      [] c = "\\" -> <<"\\", "\\">>
      [] OTHER -> <<c>>

RECURSIVE EscapeAll(_)
EscapeAll(str) ==
    IF str = <<>> THEN <<>> ELSE Escape(Head(str)) \o EscapeAll(Tail(str))

\* JSON.stringify of a string
StringifyString(str) == <<"\"">> \o EscapeAll(str) \o <<"\"">>

\* JSON.stringify(logEntry)
Stringify(entry) ==
    <<"{">> \o StringifyString(KeyTs) \o <<":">> \o StringifyString(entry.ts)
        \o <<",">> \o StringifyString(KeyPhase) \o <<":">>
        \o StringifyString(entry.phase)
        \o <<",">> \o StringifyString(KeyData) \o <<":">>
        \o StringifyString(entry.data) \o <<"}">>

\* a logRequest that writes the file anew with fs.writeFileSync (a slip C36
\* excludes)
logRequest_Overwrite(phase, data, fsOk) ==
    /\ logFiles' =
          IF fsOk
          THEN [logFiles EXCEPT ![Filename(clock)] =
                  Stringify([ts |-> toISOString(clock), phase |-> phase,
                             data |-> data]) \o <<"\n">>]
          ELSE logFiles
    /\ lastRec' = [ok |-> fsOk, phase |-> phase, data |-> data, at |-> clock,
                   n |-> lastRec.n + 1]

\* logRequest(phase, data) with the file system letting it write or not:
\* it appends the line, or throws having written nothing
logRequest(phase, data, fsOk) ==
    /\ logFiles' =
          IF fsOk
          THEN [logFiles EXCEPT ![Filename(clock)] =
                  @ \o Stringify([ts |-> toISOString(clock), phase |-> phase,
                                  data |-> data]) \o <<"\n">>]
          ELSE logFiles
    /\ lastRec' = [ok |-> fsOk, phase |-> phase, data |-> data, at |-> clock,
                   n |-> lastRec.n + 1]

\* processPrompt(messages, meta): logs, then prefixes messages[0].content
LogPrompt ==
    /\ lastRec.n < MaxLines
    /\ \E content \in Contents, fsOk \in BOOLEAN :
          LET first == [is |-> "msg", content |-> content] IN
          /\ logRequest(Inbound, content, fsOk)
          /\ msg' = IF fsOk THEN processPrompt(first) ELSE first
    /\ UNCHANGED <<clock, managerVars, handlerVars, hostVars, coreVars, journalVars>>

\* processResponse(chunk, meta): logs and returns the chunk
LogResponse ==
    /\ lastRec.n < MaxLines
    /\ \E chunk \in Contents, fsOk \in BOOLEAN :
          logRequest(Outbound, processResponse(chunk), fsOk)
    /\ UNCHANGED <<clock, msg, managerVars, handlerVars, hostVars, coreVars, journalVars>>

\* time passes: later the same day, or the next day begins
ClockTick ==
    /\ \/ clock.tick < MaxTick /\ clock' = [clock EXCEPT !.tick = @ + 1]
       \/ clock.day < MaxDay /\ clock' = [day |-> clock.day + 1, tick |-> 0]
    /\ UNCHANGED <<logFiles, msg, lastRec, managerVars, handlerVars, hostVars, coreVars, journalVars>>

LogInit ==
    /\ ManagerInit
    /\ extBusy = {}
    /\ adapter = "shipped"
    /\ HandlerIdle
    /\ LoggerIdle
    /\ HostDefault
    /\ CoreIdle
    /\ JournalIdle

LogNext ==
    \/ LogPrompt
    \/ LogResponse
    \/ ClockTick

LogSpec == LogInit /\ [][LogNext]_vars

\* ------------------------------------------------------ reading the log
\* the last line of a file that ends with a newline
LastLine(f) ==
    IF f = <<>> THEN <<>>
    ELSE LET n == Len(f)
             breaks == {i \in 1..(n - 1) : f[i] = "\n"}
             start == IF breaks = {} THEN 1
                      ELSE 1 + CHOOSE i \in breaks : \A j \in breaks : j <= i
         IN SubSeq(f, start, n - 1)

ParseFail == [ok |-> FALSE, val |-> <<>>, next |-> 0]

\* JSON.parse inside a string literal, from position i on
RECURSIVE ReadString(_, _, _)
ReadString(s, i, acc) ==
    IF i > Len(s) THEN ParseFail
    ELSE IF s[i] = "\"" THEN [ok |-> TRUE, val |-> acc, next |-> i + 1]
    ELSE IF s[i] = "\n" THEN ParseFail
    ELSE IF s[i] = "\\"
    THEN IF i + 1 > Len(s) THEN ParseFail
         ELSE IF s[i + 1] = "n" THEN ReadString(s, i + 2, Append(acc, "\n"))
         ELSE IF s[i + 1] \in {"\"", "\\"}
         THEN ReadString(s, i + 2, Append(acc, s[i + 1]))
         ELSE ParseFail
    ELSE ReadString(s, i + 1, Append(acc, s[i]))

\* the literal lit stands at position i of s
Expect(s, i, lit) ==
    /\ i + Len(lit) - 1 <= Len(s)
    /\ SubSeq(s, i, i + Len(lit) - 1) = lit

\* a member `"key":"value"` at position i, after the opening text
ParseMember(s, i, open, key) ==
    LET head == open \o StringifyString(key) \o <<":", "\"">> IN
    IF i > 0 /\ Expect(s, i, head)
    THEN ReadString(s, i + Len(head), <<>>)
    ELSE ParseFail

\* JSON.parse of a line: an object with the members ts, phase and data and
\* no other
ParseEntry(line) ==
    LET ts    == ParseMember(line, 1, <<"{">>, KeyTs)
        phase == ParseMember(line, ts.next, <<",">>, KeyPhase)
        data  == ParseMember(line, phase.next, <<",">>, KeyData)
    IN [ok |-> /\ ts.ok /\ phase.ok /\ data.ok
               /\ data.next = Len(line)
               /\ line[Len(line)] = "}",
        ts |-> ts.val, phase |-> phase.val, data |-> data.val]

\* new Date(ts) is a valid date
IsTimestamp(str) ==
    \E d \in Days, t \in 0..MaxTick : str = toISOString([day |-> d, tick |-> t])

\* C20: after a logRequest(phase, data) that returned, the last line of the
\* file of the current day parses to an object with exactly the members ts,
\* phase and data, whose phase and data are the arguments as they were when
\* the call was made and whose ts is a valid timestamp
C20_LogRoundTrip ==
    (lastRec.ok /\ clock.day = lastRec.at.day) =>
        LET e == ParseEntry(LastLine(logFiles[Filename(clock)])) IN
        /\ e.ok
        /\ e.phase = lastRec.phase
        /\ e.data = lastRec.data
        /\ IsTimestamp(e.ts)

\* the second record of the day is a prompt whose content holds a newline, a
\* quote and a backslash apart, and processPrompt has since changed the message
C20_Witness ==
    /\ lastRec.ok
    /\ lastRec.n = 2
    /\ lastRec.phase = Inbound
    /\ lastRec.data = <<"\n", "\"">>
    /\ msg.content # lastRec.data
    /\ Len(logFiles[Filename(clock)]) > Len(Stringify([ts |-> toISOString(clock),
                                                     phase |-> Inbound,
                                                     data |-> lastRec.data])) + 1

\* ------------------------------------------------- the default transformer
\* C21: the default transformer is a pure pass-through: after a processPrompt
\* that returned, the message it was given still has the content it was given
\* (the content its record holds), and processResponse returns its chunk
C21_TransformerIsPassThrough ==
    /\ (lastRec.ok /\ lastRec.phase = Inbound) => msg.content = lastRec.data
    /\ \A chunk \in Contents : processResponse(chunk) = chunk

\* ------------------------------------------------ C22..C25: the routes
\* C22: the catch-all route forwards the request as it came: same method, same
\* path and query, same body, the caller's headers less host and connection;
\* the answer has the upstream status, headers and body; the transformer is
\* not called
C22_CatchAllForwardsVerbatim ==
    (rq.route = "other" /\ up.calls > 0) =>
        /\ up.method = rq.method
        /\ up.url = rq.url
        /\ up.payload = rq.payload
        /\ up.headers = {e \in rq.headers : e[1] \notin {"host", "connection"}}
        /\ obs.ppCalls = 0
        /\ obs.prCalls = 0
        /\ (hpc = "done" /\ up.st = "done") =>
              /\ res.status = up.status
              /\ res.headers = up.rheaders
              /\ res.body = up.text

C25_OnlyMessagesReplaced ==
    (rq.route = "chat" /\ up.calls > 0) =>
        /\ up.fields = rq.fields
        /\ up.body = Body(processPrompt(rq.first), rq.stream)

\* ------------------------------------------- C26: the proxy-URL variable
\* hosts started with and without GH_COPILOT_OVERRIDE_PROXY_URL
EnvInit ==
    /\ ManagerInit
    /\ adapter = "shipped"
    /\ HandlerIdle
    /\ LoggerIdle
    /\ processEnv \in [proxyUrl : BOOLEAN, node : {TRUE}]
    /\ CoreIdle
    /\ JournalIdle

\* the manager of QuietSpec in each of them
EnvSpec == EnvInit /\ [][QuietNext]_vars

\* C26: the manager never sets GH_COPILOT_OVERRIDE_PROXY_URL, and its absence
\* only makes startProxy warn: every step in which a startProxy returns (on
\* its own or inside ensureProxyAvailable) is, but for the warning, the step
\* it would be in a host that differs in the variable alone, with the same
\* return value and the same handle, port, timer, stop flag and children after
C26_ProxyUrlOnlyWarns ==
    [][/\ processEnv' = processEnv
       /\ \A t \in Tasks :
             (task[t].pc = "start_got" /\ task'[t] # task[t]) =>
                 \E w \in BOOLEAN :
                     StartTail(t, ~processEnv.proxyUrl, [last' EXCEPT !.warn = w])]_vars

\* a startProxy has returned true in a host without the variable, and warned
C26_Witness ==
    /\ ~processEnv.proxyUrl
    /\ last.op = "start_ret"
    /\ last.val = "T"
    /\ last.warn

\* ------------------------------------------------ C28: failures of spawn
\* a host whose PATH leads to no `node`
FaultInit ==
    /\ ManagerInit
    /\ adapter = "shipped"
    /\ HandlerIdle
    /\ LoggerIdle
    /\ processEnv = [proxyUrl |-> FALSE, node |-> FALSE]
    /\ CoreIdle
    /\ JournalIdle

\* the next tick runs before any timer, answer or call
NoErrorPending == \A c \in Children : child[c].st # "failed"

FaultCallEnsure == NoErrorPending /\ CallEnsure

FaultCallStop == NoErrorPending /\ CallStop

FaultTick == NoErrorPending /\ Tick

FaultTaskStep(t) == NoErrorPending /\ TaskStep(t)

FaultNext ==
    \/ FaultCallEnsure
    \/ FaultCallStop
    \/ FaultTick
    \/ \E t \in Tasks : FaultTaskStep(t)
    \/ \E c \in Children : ChildError(c)

FaultSpec == FaultInit /\ [][FaultNext]_vars

\* C28: no failure of the child reaches the host as an exception: the calls
\* of the manager return a value, and no callback of a child or of a timer
\* raises
C28_NoFailureEscapes == last.op # "uncaught"

\* -------------------------------------------- C30: the exit of an old child
\* C30: the 'close' of a child that is no longer the one the handle refers to
\* (the handle is on a newer child, which has not exited) leaves the handle
\* and the port as they are and starts nothing
C30_StaleExitIsIgnored ==
    [][(/\ last'.close # "-"
        /\ proxyProcess # Null
        /\ child[proxyProcess].st # "dead")
          => /\ proxyProcess' = proxyProcess
             /\ proxyPort' = proxyPort
             /\ last'.op # "start_head"]_vars

\* ------------------------------------------------- C29: the restart loop
\* The manager with children that all exit on their own, each before the
\* event loop runs anything else (a proxy that fails at start-up).  No other
\* process holds a port, spawn does not throw, and a caller starts the proxy
\* when nothing is running and never stops it.
AllExited == \A c \in Children : ~Alive(c)

LoopCallEnsure ==
    /\ \A t \in Tasks : TaskIdle(t)
    /\ \A c \in Children : child[c].st = "free"
    /\ CallEnsure
    /\ NoThrow

LoopTick == AllExited /\ Tick

LoopTaskStep(t) ==
    /\ AllExited
    /\ \/ ProbeAnswer(t)
       \/ EnsureGot(t) /\ NoThrow
       \/ Settle(t)
       \/ StartGot(t)
       \/ TickGot(t)
       \/ RestartDelay(t) /\ NoThrow

LoopClose(c) == AllExited /\ ChildClose(c) /\ NoThrow

LoopNext ==
    \/ LoopCallEnsure
    \/ LoopTick
    \/ \E t \in Tasks : LoopTaskStep(t)
    \/ \E c \in Children : ChildCrash(c)
    \/ \E c \in Children : LoopClose(c)

\* every exit, every timer, every fetch and every 'close' is eventually
\* delivered; the caller is not obliged
LoopSpec ==
    /\ LiveInit
    /\ [][LoopNext]_vars
    /\ \A t \in Tasks : WF_vars(LoopTaskStep(t))
    /\ \A c \in Children : WF_vars(ChildCrash(c))
    /\ \A c \in Children : WF_vars(LoopClose(c))
    /\ WF_vars(LoopTick)

\* C29: when every child exits on its own, each exit is followed by the
\* spawn of a new child, without end: the manager never gives up
C29_RestartsWithoutEnd ==
    (\E c \in Children : child[c].st = "dead") ~> Spawned

\* ------------------------------------------------------- the core manager
\* health probes ensureCoreAvailable() makes after a start
HealthTries == 5

\* GET /control/health on port p answers 200
CoreHealthy(c, p) == \E k \in CoreChildren : c.kid[k].st = "up" /\ c.kid[k].port = p

\* op: "spawned", "start_ret", "ensure_ret", "close", "stopCore"; val: the
\* value returned, or how the closed child had ended; ok: the call returned
\* on a health probe that answered 200
CoreEvent(op, val, ok) == [op |-> op, val |-> val, ok |-> ok]

\* ChildProcess.kill(): the process ends, its 'close' is still to come
CoreKill(kid, k) ==
    IF k # Null /\ kid[k].st \in {"starting", "up"}
    THEN [kid EXCEPT ![k].st = "killed"]
    ELSE kid

CoreFreeKid(c) ==
    CHOOSE k \in CoreChildren :
        c.kid[k].st = "free" /\ \A j \in CoreChildren : j < k => c.kid[j].st # "free"

\* startCore(port) of the state c up to its delay, pc being where the call
\* goes on after it and ret the event of the caller if it returns false: the
\* module or its DLL is missing -> false; else spawn, attach the handle,
\* register the 'close' handler, assign the port
startCore(c, port, installed, pc, ret) ==
    IF ~installed
    THEN [c EXCEPT !.pc = "idle", !.last = ret]
    ELSE [c EXCEPT !.kid[CoreFreeKid(c)] = [st |-> "starting", port |-> port],
                   !.proc = CoreFreeKid(c),
                   !.port = port,
                   !.pc = pc,
                   !.arg = port,
                   !.last = CoreEvent("spawned", "-", FALSE)]

CoreHasFreeKid == \E k \in CoreChildren : core.kid[k].st = "free"

\* a caller's startCore(port)
CoreCallStart ==
    /\ core.pc = "idle"
    /\ CoreHasFreeKid
    /\ \E port \in CorePorts, installed \in BOOLEAN :
          core' = startCore(core, port, installed, "start_settle",
                            CoreEvent("start_ret", "F", FALSE))
    /\ UNCHANGED <<managerVars, handlerVars, loggerVars, hostVars, journalVars>>

\* the 2000 ms delay of startCore is over: it returns true, no probe made
CoreSettled ==
    /\ core.pc \in {"start_settle", "ens_settle"}
    /\ core' = [core EXCEPT !.pc = IF @ = "start_settle" THEN "idle"
                                   ELSE "ens_register",
                            !.last = CoreEvent("start_ret", "T", FALSE)]
    /\ UNCHANGED <<managerVars, handlerVars, loggerVars, hostVars, journalVars>>

\* ensureCoreAvailable() once Core is found not available: the module check,
\* findFreePort() and startCore(port)
EnsureStart(c) ==
    {startCore(c, port, installed, "ens_settle", CoreEvent("ensure_ret", "F", FALSE)) :
        port \in CorePorts, installed \in BOOLEAN}

\* a caller's ensureCoreAvailable(): isCoreAvailable() reads the port of
\* mcp.json into corePort and probes it; with no server registered it is
\* false at once
CoreCallEnsure ==
    /\ core.pc = "idle"
    /\ CoreHasFreeKid
    /\ IF core.cfg = Null
       THEN core' \in EnsureStart(core)
       ELSE core' = [core EXCEPT !.port = core.cfg, !.pc = "ens_probe",
                                 !.last = CoreEvent("none", "-", FALSE)]
    /\ UNCHANGED <<managerVars, handlerVars, loggerVars, hostVars, journalVars>>

\* the probe of isCoreAvailable() answered
CoreProbed ==
    /\ core.pc = "ens_probe"
    /\ IF CoreHealthy(core, core.cfg)
       THEN core' = [core EXCEPT !.pc = "idle",
                                 !.last = CoreEvent("ensure_ret", "T", TRUE)]
       ELSE /\ CoreHasFreeKid
            /\ core' \in EnsureStart(core)
    /\ UNCHANGED <<managerVars, handlerVars, loggerVars, hostVars, journalVars>>

\* registerMcpServer(port) wrote mcp.json, or failed
CoreRegister ==
    /\ core.pc = "ens_register"
    /\ \E written \in BOOLEAN :
          core' = IF written
                  THEN [core EXCEPT !.cfg = core.arg, !.pc = "ens_health",
                                    !.tries = 0,
                                    !.last = CoreEvent("none", "-", FALSE)]
                  ELSE [core EXCEPT !.pc = "idle",
                                    !.last = CoreEvent("ensure_ret", "F", FALSE)]
    /\ UNCHANGED <<managerVars, handlerVars, loggerVars, hostVars, journalVars>>

\* one round of the health loop of ensureCoreAvailable()
CoreHealth ==
    /\ core.pc = "ens_health"
    /\ core' = IF CoreHealthy(core, core.arg)
               THEN [core EXCEPT !.pc = "idle",
                                 !.last = CoreEvent("ensure_ret", "T", TRUE)]
               ELSE IF core.tries + 1 = HealthTries
               THEN [core EXCEPT !.pc = "idle", !.tries = @ + 1,
                                 !.last = CoreEvent("ensure_ret", "F", FALSE)]
               ELSE [core EXCEPT !.tries = @ + 1,
                                 !.last = CoreEvent("none", "-", FALSE)]
    /\ UNCHANGED <<managerVars, handlerVars, loggerVars, hostVars, journalVars>>

\* stopCore(): kills and detaches the child when a handle is attached
CoreCallStop ==
    /\ core' = IF core.proc # Null
               THEN [core EXCEPT !.kid = CoreKill(@, core.proc),
                                 !.proc = Null, !.port = Null,
                                 !.last = CoreEvent("stopCore", "-", FALSE)]
               ELSE [core EXCEPT !.last = CoreEvent("stopCore", "-", FALSE)]
    /\ UNCHANGED <<managerVars, handlerVars, loggerVars, hostVars, journalVars>>

\* the Core process is listening
CoreKidListen(k) ==
    /\ core.kid[k].st = "starting"
    /\ core' = [core EXCEPT !.kid[k].st = "up",
                            !.last = CoreEvent("none", "-", FALSE)]
    /\ UNCHANGED <<managerVars, handlerVars, loggerVars, hostVars, journalVars>>

\* the Core process terminates on its own
CoreKidExit(k) ==
    /\ core.kid[k].st \in {"starting", "up"}
    /\ core' = [core EXCEPT !.kid[k].st = "exited",
                            !.last = CoreEvent("none", "-", FALSE)]
    /\ UNCHANGED <<managerVars, handlerVars, loggerVars, hostVars, journalVars>>

\* the 'close' handler registered by startCore: clears the handle and the
\* port, and that is all
CoreKidClose(k) ==
    /\ core.kid[k].st \in {"exited", "killed"}
    /\ core' = [core EXCEPT !.kid[k] = [st |-> "free", port |-> Null],
                            !.proc = Null, !.port = Null,
                            !.last = CoreEvent("close", core.kid[k].st, FALSE)]
    /\ UNCHANGED <<managerVars, handlerVars, loggerVars, hostVars, journalVars>>

\* the core manager, the proxy manager left alone
CoreInit ==
    /\ ManagerInit
    /\ extBusy = {}
    /\ adapter = "shipped"
    /\ HandlerIdle
    /\ LoggerIdle
    /\ HostDefault
    /\ CoreIdle
    /\ JournalIdle

CoreNext ==
    \/ CoreCallStart
    \/ CoreCallEnsure
    \/ CoreCallStop
    \/ CoreSettled
    \/ CoreProbed
    \/ CoreRegister
    \/ CoreHealth
    \/ \E k \in CoreChildren : CoreKidListen(k)
    \/ \E k \in CoreChildren : CoreKidExit(k)
    \/ \E k \in CoreChildren : CoreKidClose(k)

CoreSpec == CoreInit /\ [][CoreNext]_vars

\* C27: the core manager has the lifecycle of the proxy manager: its start
\* returns true only on a health probe that answered ok, the 'close' of a
\* child that exited on its own starts a new child, and a health check is
\* armed while a child is attached
C27_CoreHasProxyLifecycle ==
    /\ (core.last.op = "start_ret" /\ core.last.val = "T") => core.last.ok
    /\ (core.last.op = "close" /\ core.last.val = "exited") => core.proc # Null
    /\ core.proc # Null => core.timers > 0

\* ------------------------------------------------------------------ C31
\* C31: whenever control is back in the event loop, the manager has a port
\* assigned exactly when it has a process handle attached, whatever starts,
\* stops, restarts, exits and health-check ticks came before
C31_PortIffHandle == (proxyPort # Null) <=> (proxyProcess # Null)

\* a child has exited, its 'close' handler has started the next one, and the
\* manager holds the new handle together with the new port
C31_Witness ==
    /\ last.op = "start_head" /\ last.val = "spawned" /\ last.close = "restart"
    /\ proxyProcess # Null /\ proxyPort \in Ports \cup {FallbackPort}

\* ------------------------------------------------------------------ C32
\* C32: a health-check tick whose probe was issued against an earlier child
\* never stops or restarts a later child: when the manager was stopped and
\* started again while the probe was pending (no earlier child is alive, and
\* the child now attached is up and still in the settle delay of its
\* startProxy, during which no tick begins), the failed result of the tick
\* starts no restartProxy and leaves the handle, the port and the child alone
C32_StaleTickSparesNewChild ==
    [][\A t \in Tasks :
          (/\ task[t].pc = "tick_got" /\ task'[t] # task[t]
           /\ ~task[t].ok
           /\ proxyProcess # Null
           /\ child[proxyProcess].st = "up"
           /\ child[proxyProcess].port = proxyPort
           /\ child[proxyProcess].by # Null
           /\ task[child[proxyProcess].by].pc = "settle"
           /\ \A c \in Children \ {proxyProcess} : ~Alive(c))
          => /\ last'.op # "restartProxy"
             /\ proxyProcess' = proxyProcess
             /\ proxyPort' = proxyPort
             /\ child'[proxyProcess].st = "up"]_vars

\* ------------------------------------------------------------------ C33
\* C33: in a streamed answer the sentinel is recognised on the upstream
\* payload, by exact match with [DONE]: it is never handed to
\* processResponse; once it has been forwarded the response is ended,
\* whatever the transformer did; and while the handler is streaming, the
\* response is ended by nothing but a forwarded sentinel
C33_SentinelRecognisedUpstream ==
    StreamingOk =>
        /\ \A i \in 1..Len(obs.fed) : obs.fed[i] # Done
        /\ (\E i \in 1..Len(res.frames) : res.frames[i] = Done) => res.ended
        /\ (hpc = "streaming" /\ res.ended) =>
               /\ res.frames # <<>>
               /\ res.frames[Len(res.frames)] = Done
               /\ up.all[Len(up.all) - Len(up.events)] = Done

\* ------------------------------------------------------------------ C34
\* C34: for a chat-completions request the proxy never sets the status or
\* sends an error body once the first event frame of the response has been
\* written: a failure of the upstream body in mid-stream leads to no 500 on a
\* response whose head and frames are out
C34_NoErrorAfterFirstFrame == rq.route = "chat" => ~obs.late500

\* ------------------------------------------------------------------ C35
\* the proxy process with its event loop running: every callback that is due
\* runs, and an upstream body that does not fail is read to its end.  The
\* failure of an upstream body and the caller's disconnect may happen or not
ProxyLiveSpec ==
    /\ ProxyInit
    /\ [][ProxyNext]_vars
    /\ WF_vars(FetchSettle)
    /\ WF_vars(ErrText)
    /\ WF_vars(JsonGot)
    /\ WF_vars(StreamData)
    /\ WF_vars(PromiseSettle)
    /\ WF_vars(StreamEnd)

\* C35: every chat-completions request whose upstream call has answered has
\* its response ended in the end, after the sentinel, at the end of a body
\* without sentinel, on an upstream error status or when the upstream body
\* fails in mid-stream, unless the caller has gone; none is left with a
\* response that is never ended
C35_ResponseEndedInTheEnd ==
    (rq.route = "chat" /\ up.st = "head") ~> (res.ended \/ reqClosed)

\* ------------------------------------------------------------------ C39
\* the values an Authorization header may have, none being one of them
Authorizations == {{}, {<<"authorization", "key">>}}

\* the request r with its Authorization header replaced
WithAuthorization(r, a) ==
    [r EXCEPT !.headers = {e \in @ : e[1] # "authorization"} \cup a]

\* the data of the inbound record and of the outbound records of the request
\* in flight: what logRequest was given, which it writes after the timestamp
\* and the phase
RecordData ==
    <<[messages |-> rq.first, meta |-> obs.meta]>>
        \o [i \in 1..Len(obs.fed) |-> [chunk |-> obs.fed[i], meta |-> obs.meta]]

\* the same records, had the request come with the Authorization header a:
\* the messages and the chunks do not depend on the header
RecordDataWith(a) ==
    <<[messages |-> rq.first, meta |-> Meta(WithAuthorization(rq, a))]>>
        \o [i \in 1..Len(obs.fed) |->
               [chunk |-> obs.fed[i], meta |-> Meta(WithAuthorization(rq, a))]]

\* C39: the caller's Authorization is handed to the upstream call and is not
\* written to the log: the records written for a chat-completions request
\* are, but for their timestamps, those of the request that differs from it
\* in nothing but its Authorization header
C39_AuthorizationNotLogged ==
    (rq.route = "chat" /\ obs.ppCalls > 0 /\ ~obs.logFailed) =>
        /\ \A a \in Authorizations : RecordDataWith(a) = RecordData
        /\ up.calls > 0 =>
              {e \in up.headers : e[1] = "authorization" /\ e[2] # ""}
                  = {e \in rq.headers : e[1] = "authorization"}

\* ------------------------------------------------------------------ C36
\* outbound records one request gives rise to
MaxChunks == 1

\* what the requests carry: a plain content, and one JSON.stringify escapes
TrafficContents == {<<"a">>, <<"\n">>}

\* the call of logRequest made for request i has returned or thrown
Called(i, phase, data, fsOk) ==
    calls' = IF fsOk
             THEN Append(calls, [id |-> i, phase |-> phase, data |-> data,
                                 at |-> clock])
             ELSE calls

\* request i arrives: the route awaits processPrompt, which logs the inbound
\* record in the turn of the call; when logRequest throws, processPrompt
\* rejects and the catch block answers
TrafficPrompt(i) ==
    /\ inflight[i].st = "none"
    /\ \E content \in TrafficContents, fsOk \in BOOLEAN :
          /\ logRequest(Inbound, content, fsOk)
          /\ Called(i, Inbound, content, fsOk)
          /\ inflight' = [inflight EXCEPT ![i].st =
                            IF fsOk THEN "prompted" ELSE "failed"]
    /\ UNCHANGED <<clock, msg, fsys, fileLoggingEnabled, logDir, audit,
                   managerVars, handlerVars, hostVars, coreVars>>

\* an upstream answer or event of request i is handed to processResponse,
\* which logs the outbound record in the turn of the call
TrafficResponse(i) ==
    /\ inflight[i].st = "prompted"
    /\ inflight[i].outs < MaxChunks
    /\ \E chunk \in TrafficContents, fsOk \in BOOLEAN :
          /\ logRequest(Outbound, processResponse(chunk), fsOk)
          /\ Called(i, Outbound, processResponse(chunk), fsOk)
    /\ inflight' = [inflight EXCEPT ![i].outs = @ + 1]
    /\ UNCHANGED <<clock, msg, fsys, fileLoggingEnabled, logDir, audit,
                   managerVars, handlerVars, hostVars, coreVars>>

TrafficNext ==
    \/ \E i \in Requests : TrafficPrompt(i)
    \/ \E i \in Requests : TrafficResponse(i)
    \/ ClockTick

\* one proxy process serving its requests at once
TrafficSpec == LogInit /\ [][TrafficNext]_vars

\* the lines of a file: the text before each newline, and the text after the
\* last one if there is any
LineBreaks(f) == {i \in 1..Len(f) : f[i] = "\n"}

LineCount(f) ==
    Cardinality(LineBreaks(f))
        + (IF f # <<>> /\ f[Len(f)] # "\n" THEN 1 ELSE 0)

\* the position of the k-th newline of f; 0 for k = 0, past the end when
\* there are fewer
BreakAt(f, k) ==
    IF k = 0 THEN 0
    ELSE IF k > Cardinality(LineBreaks(f)) THEN Len(f) + 1
    ELSE CHOOSE b \in LineBreaks(f) :
            Cardinality({x \in LineBreaks(f) : x < b}) = k - 1

LineAt(f, k) == SubSeq(f, BreakAt(f, k - 1) + 1, BreakAt(f, k) - 1)

\* the file the calls cs leave when each appends its line to the file of its
\* day
RECURSIVE FileOf(_, _)
FileOf(cs, name) ==
    IF cs = <<>> THEN <<>>
    ELSE LET c == Head(cs) IN
         (IF Filename(c.at) = name
          THEN Stringify([ts |-> toISOString(c.at), phase |-> c.phase,
                          data |-> c.data]) \o <<"\n">>
          ELSE <<>>) \o FileOf(Tail(cs), name)

\* C36: a day's file grows by whole records only: whatever the interleaving
\* of the requests of one proxy process, each file is the records of its day
\* in the order the calls were made, every line of it is one complete JSON
\* object, no line written is altered or removed, and the inbound record of
\* a request comes before each of its outbound records
C36_LogGrowsByWholeRecords ==
    /\ \A name \in FileNames :
          /\ logFiles[name] = FileOf(calls, name)
          /\ LineCount(logFiles[name]) =
                Cardinality({k \in 1..Len(calls) : Filename(calls[k].at) = name})
          /\ \A k \in 1..LineCount(logFiles[name]) :
                ParseEntry(LineAt(logFiles[name], k)).ok
    /\ \A k \in 1..Len(calls) :
          calls[k].phase = Outbound =>
             \E j \in 1..(k - 1) :
                calls[j].id = calls[k].id /\ calls[j].phase = Inbound

\* two requests took turns: both prompts were logged before either answer,
\* a content with a newline among them, and all four records are in one file
C36_Witness ==
    /\ Len(calls) = 4
    /\ calls[1].id # calls[2].id
    /\ calls[3].phase = Outbound /\ calls[4].phase = Outbound
    /\ calls[3].id # calls[4].id
    /\ \E k \in 1..4 : calls[k].data = <<"\n">>
    /\ \A k \in 1..4 : calls[k].at.day = 1
    /\ LineCount(logFiles[Filename([day |-> 1, tick |-> 0])]) = 4

\* ------------------------------------------- the adapter with a flag
\* calls of logRequest made on the adapter
MaxFlagCalls == 3

\* fs.existsSync(this.logDir)
DirExists(fs) == fs.dir \in {"readonly", "writable"}

\* ensureLogDirectoryExists() on the file system fs: a missing directory is
\* made; the flag is set when nothing threw and cleared when mkdirSync threw
ensureLogDirectoryExists(fs) ==
    IF DirExists(fs) THEN [fs |-> fs, enabled |-> TRUE]
    ELSE IF fs.dir = "absent"
    THEN [fs |-> [fs EXCEPT !.dir = "writable"], enabled |-> TRUE]
    ELSE [fs |-> fs, enabled |-> FALSE]

\* checkWritePermissions(): a test file is written to the directory and
\* removed; the flag is set when nothing threw and cleared otherwise
checkWritePermissions(fs) == fs.dir = "writable"

\* fs.appendFileSync(logFile, line) does not throw: the file is there, or it
\* can be created.  The fs.writeFileSync the adapter falls back on when the
\* file is not there can be made in the same cases only
CanAppend(fs, file) ==
    fs.dir = "writable" \/ (fs.dir = "readonly" /\ file # <<>>)

\* the constructor on the file system fs: without a home directory the flag
\* stays cleared and logDir empty; else both checks run, the second one last
Construct(fs) ==
    IF ~fs.home
    THEN [fs |-> fs, enabled |-> FALSE, logDir |-> FALSE]
    ELSE LET e == ensureLogDirectoryExists(fs)
         IN [fs |-> e.fs, enabled |-> checkWritePermissions(e.fs), logDir |-> TRUE]

\* a flag test that lets every call through (a slip C38 excludes)
FileLoggingOff_Never(enabled, dir) == FALSE

\* the test at the head of logRequest: `!this.fileLoggingEnabled || !this.logDir`
FileLoggingOff(enabled, dir) == ~enabled \/ ~dir

\* logRequest(phase, data) of the adapter with the flag: it returns at the
\* flag test, or runs ensureLogDirectoryExists and then appends the line
\* whatever that check found; a write that throws is caught
FlagLogRequest ==
    /\ audit.n < MaxFlagCalls
    /\ \E phase \in {Inbound, Outbound}, data \in TrafficContents :
          IF FileLoggingOff(fileLoggingEnabled, logDir)
          THEN /\ audit' = [NoAudit EXCEPT !.n = audit.n + 1, !.skipped = TRUE]
               /\ UNCHANGED <<fsys, fileLoggingEnabled, logFiles, lastRec>>
          ELSE LET e  == ensureLogDirectoryExists(fsys)
                   ok == CanAppend(e.fs, logFiles[Filename(clock)])
               IN /\ fsys' = e.fs
                  /\ fileLoggingEnabled' = e.enabled
                  /\ logRequest(phase, data, ok)
                  /\ audit' = [n |-> audit.n + 1, skipped |-> FALSE,
                               existsChecked |-> TRUE, permChecked |-> FALSE,
                               wrote |-> ok]
    /\ UNCHANGED <<logDir, clock, msg, inflight, calls,
                   managerVars, handlerVars, hostVars, coreVars>>

\* the directory changes under the running process: it is removed, made, or
\* its permissions change; the files of a removed directory are gone
FsChange ==
    /\ \E d \in DirStates \ {fsys.dir} :
          /\ fsys' = [fsys EXCEPT !.dir = d]
          /\ logFiles' = IF d \in {"absent", "blocked"}
                         THEN [f \in FileNames |-> <<>>]
                         ELSE logFiles
    /\ UNCHANGED <<fileLoggingEnabled, logDir, audit, clock, msg, lastRec,
                   inflight, calls, managerVars, handlerVars, hostVars, coreVars>>

\* a proxy process after `new OrchestratorAdapter()`, on any file system
FlagInit ==
    /\ ManagerInit
    /\ extBusy = {}
    /\ adapter = "shipped"
    /\ HandlerIdle
    /\ LoggerIdle
    /\ HostDefault
    /\ CoreIdle
    /\ inflight = NoTraffic
    /\ calls = <<>>
    /\ audit = NoAudit
    /\ \E home \in BOOLEAN, dir \in DirStates :
          LET c == Construct([home |-> home, dir |-> dir])
          IN /\ fsys = c.fs
             /\ fileLoggingEnabled = c.enabled
             /\ logDir = c.logDir

FlagNext ==
    \/ FlagLogRequest
    \/ FsChange
    \/ ClockTick

FlagSpec == FlagInit /\ [][FlagNext]_vars

\* ------------------------------------------------------------------ C37
\* C37: before each write logRequest verifies again that the log directory
\* exists and that it is writable, and it writes to the file only when both
\* hold: a call that wrote has run both checks and found a directory that
\* is there and can be written to
C37_WritesOnlyAfterBothChecks ==
    [][(audit'.n # audit.n /\ audit'.wrote) =>
          /\ audit'.existsChecked
          /\ fsys'.dir = "writable"]_vars

\* ------------------------------------------------------------------ C38
\* C38: in the adapter with the flag, file logging once off stays off: from
\* a state with the flag cleared no step sets it, and a logRequest call
\* writes nothing, runs no directory check and leaves the file system as it
\* is, the directory being writable again or not
C38_DisabledStaysDisabled ==
    [][~fileLoggingEnabled =>
          /\ ~fileLoggingEnabled'
          /\ audit'.n # audit.n =>
                /\ audit'.skipped
                /\ ~audit'.wrote
                /\ ~audit'.existsChecked
                /\ ~audit'.permChecked
                /\ logFiles' = logFiles
                /\ fsys' = fsys]_vars

\* the adapter found its directory not writable, the directory has become
\* writable since, and the call made after that wrote nothing
C38_Witness ==
    /\ ~fileLoggingEnabled
    /\ logDir
    /\ fsys.dir = "writable"
    /\ audit.n > 0
    /\ audit.skipped
    /\ \A f \in FileNames : logFiles[f] = <<>>

====
